---- MODULE Spec2Model ----
(***************************************************************************)
(* IT job aggregator: the dedup store (db.py), the delivery retry loop     *)
(* (bot.py), the page fetch retry loop (scrapers/jobsps_scraper.py) and    *)
(* the orchestrator with its scheduling loop (main.py).                    *)
(***************************************************************************)
EXTENDS Integers, Sequences, FiniteSets, TLC

(* ------------------------------ bounds --------------------------------- *)

\* most postings one scrape returns
MaxJobs == 2
\* most run_pipeline executions one run_loop starts
MaxRuns == 2
\* largest max_retries argument tried for the two retry loops
MaxRetriesArg == 5
\* interval_minutes * 60, counted in clock ticks
IntervalTicks == 2
\* the calendar year datetime.now() reports
CurrentYear == 2026
\* most anchors in one channel message
MaxAnchors == 2
\* most close() calls made on one store handle
MaxCloses == 3
MaxInits == 2
MaxText == 2
\* listing pages the site serves
MaxPages == 2
\* longest list handed to sort_jobs_by_posted_date on its own
MaxSortLen == 3

(* ------------------------- program constants --------------------------- *)

MAX_RETRIES == 3
INITIAL_BACKOFF == 2
\* sorts after every parsed date: datetime.max
DATETIME_MAX == 99991232
\* jobsps_scraper.py: the age window in days
MAX_AGE_DAYS == 30

\* initial_backoff arguments tried for the two retry loops
InitialBackoffs == {1, 2, 3, 5}

(* ------------------------------ postings ------------------------------- *)

\* posted_date as split(",") sees it: n parts, day d, month abbreviation b,
\* year y (0 when there is no third part); n = 0 is None or "".
NoDate == [n |-> 0, d |-> 0, b |-> "", y |-> 0]

\* models.Job with every field given; "None" is Python's None
FullJob(t, c, l, d, s, pl, loc, dl, ex, p) ==
    [title |-> t, company |-> c, link |-> l, description |-> d, source |-> s,
     position_level |-> pl, location |-> loc, deadline |-> dl,
     experience |-> ex, posted_date |-> p]

\* models.Job with the optional fields left at their default of None
Job(t, l, p) ==
    FullJob(t, "None", l, "d", "Jobs.ps", "None", "None", "None", "None", p)

\* a posting with every optional field set
J_full ==
    FullJob("t3", "c1", "l2", "d3", "Telegram", "Mid-Level", "Ramallah",
            "2026-03-24", "3 Years", [n |-> 2, d |-> 24, b |-> "Feb", y |-> 0])

\* the postings the scraper can return
Postings ==
    { Job("t1", "l1", [n |-> 2, d |-> 24, b |-> "Feb", y |-> 0]),
      Job("t2", "l1", [n |-> 3, d |-> 16, b |-> "Nov", y |-> 2025]),
      Job("t1", "l2", NoDate),
      Job("t2", "l2", [n |-> 2, d |-> 31, b |-> "Feb", y |-> 0]) }

Links == { j.link : j \in Postings }

RECURSIVE SeqsUpTo(_, _)
SeqsUpTo(S, n) ==
    IF n = 0 THEN { <<>> }
    ELSE LET shorter == SeqsUpTo(S, n - 1)
         IN  shorter \cup { Append(s, x) : s \in { t \in shorter : Len(t) = n - 1 }, x \in S }

\* the lists scraper.scrape() can return
JobLists == SeqsUpTo(Postings, MaxJobs)

(* ------------------ main.py: ordering by posted date ------------------- *)

MonthAbbrev ==
    [ Jan |-> 1, Feb |-> 2, Mar |-> 3, Apr |-> 4, May |-> 5, Jun |-> 6,
      Jul |-> 7, Aug |-> 8, Sep |-> 9, Oct |-> 10, Nov |-> 11, Dec |-> 12 ]

IsLeap(y) == (y % 4 = 0 /\ y % 100 # 0) \/ y % 400 = 0

DaysIn(m, y) ==
    IF m = 2 THEN (IF IsLeap(y) THEN 29 ELSE 28)
    ELSE IF m \in {4, 6, 9, 11} THEN 30 ELSE 31

\* datetime.strptime(f"{d} {b} {y}", "%d %b %Y"): the date as yyyymmdd, or
\* "ValueError"
Strptime(d, b, y) ==
    IF /\ b \in DOMAIN MonthAbbrev
       /\ y \in 1..9999
       /\ d \in 1..DaysIn(MonthAbbrev[b], y)
    THEN y * 10000 + MonthAbbrev[b] * 100 + d
    ELSE -1

\* a parser that knows the explicit-year form only
_parse_posted_date_ExplicitYearOnly(p) ==
    LET parsed == IF p.n = 3 THEN Strptime(p.d, p.b, p.y) ELSE -1
    IN  IF parsed = -1 THEN DATETIME_MAX ELSE parsed

\* main._parse_posted_date: the date as yyyymmdd, or datetime.max
_parse_posted_date(p) ==
    LET parsed == IF p.n = 3 THEN Strptime(p.d, p.b, p.y)
                  ELSE IF p.n = 2 THEN Strptime(p.d, p.b, CurrentYear)
                  ELSE -1
    IN  IF parsed = -1 THEN DATETIME_MAX ELSE parsed

SortKey(j) ==
    IF j.posted_date.n # 0 THEN _parse_posted_date(j.posted_date) ELSE DATETIME_MAX

\* j goes in front of the elements with its own key
InsertByKey_BeforeEquals(s, j) ==
    LET keep == { i \in 1..Len(s) : SortKey(s[i]) < SortKey(j) }
        k == Cardinality(keep)
    IN  SubSeq(s, 1, k) \o <<j>> \o SubSeq(s, k + 1, Len(s))

\* j goes behind every element whose key is not greater: sorted() is stable
InsertByKey(s, j) ==
    LET keep == { i \in 1..Len(s) : SortKey(s[i]) <= SortKey(j) }
        k == Cardinality(keep)
    IN  SubSeq(s, 1, k) \o <<j>> \o SubSeq(s, k + 1, Len(s))

\* the scrape order kept
sort_jobs_by_posted_date_Unsorted(jobs) == jobs

RECURSIVE sort_jobs_by_posted_date(_)
sort_jobs_by_posted_date(jobs) ==
    IF jobs = <<>> THEN <<>>
    ELSE InsertByKey(sort_jobs_by_posted_date(SubSeq(jobs, 1, Len(jobs) - 1)),
                     jobs[Len(jobs)])

\* the lists sort_jobs_by_posted_date is tried on
SortLists == SeqsUpTo(Postings, MaxSortLen)

\* ret is the new list sorted() builds; jobs is the caller's list
SortCall(jobs) == [pc |-> "called", jobs |-> jobs, ret |-> << >>]

(* ------------- jobsps_scraper.py: what the job board serves ------------- *)

\* an href: scheme, host and the rest; Url("", "", "") is a missing href
Url(scheme, host, path) == [scheme |-> scheme, host |-> host, path |-> path]

\* a.list-3--row as _parse_listing_row reads it: the title and href attributes,
\* the company cell, the tooltip location, the date cell; detail is what the
\* row's detail page gives: "down" (no content after all retries), "full" (all
\* four metadata items) or "bare" (none of them)
Row(t, c, l, loc, date, detail) ==
    [title |-> t, company |-> c, link |-> l, location |-> loc, date_str |-> date,
     detail |-> detail]

R_feb == Row("t1", "c1", Url("https", "l1", ""), "loc1", [n |-> 2, d |-> 24, b |-> "Feb", y |-> 0], "full")
R_old == Row("t2", "", Url("https", "l2", ""), "", [n |-> 3, d |-> 16, b |-> "Nov", y |-> CurrentYear - 1], "full")
R_nodate == Row("t3", "c1", Url("https", "l3", ""), "loc1", NoDate, "down")
R_edge == Row("t4", "c2", Url("https", "l4", ""), "", [n |-> 2, d |-> 30, b |-> "Jan", y |-> 0], "bare")
R_unparsed == Row("t5", "", Url("https", "l5", ""), "loc2", [n |-> 2, d |-> 31, b |-> "Feb", y |-> 0], "down")
R_notitle == Row("", "c1", Url("https", "l6", ""), "loc1", [n |-> 2, d |-> 24, b |-> "Feb", y |-> 0], "full")
R_relative == Row("t7", "c1", Url("", "", "/jobs/7"), "loc1", [n |-> 2, d |-> 24, b |-> "Feb", y |-> 0], "down")
R_about == Row("t8", "c1", Url("about", "", "blank"), "loc1", [n |-> 2, d |-> 20, b |-> "Feb", y |-> 0], "bare")

\* div.list-3--body of a listing page, top to bottom
P_mixed == << R_feb, R_old, R_nodate >>
P_recent == << R_edge, R_unparsed >>
P_broken == << R_notitle, R_relative, R_about, R_feb >>
P_empty == << >>

\* the listing pages of a site, by page number
Sites ==
    { [n \in 1..MaxPages |-> IF n = 1 THEN P_recent ELSE P_mixed],
      [n \in 1..MaxPages |-> IF n = 1 THEN P_mixed ELSE P_recent],
      [n \in 1..MaxPages |-> IF n = 1 THEN P_broken ELSE IF n = 2 THEN P_mixed ELSE P_recent],
      [n \in 1..MaxPages |-> IF n = 1 THEN P_empty ELSE P_broken] }

\* a page number past the last one gets a page without rows
PageAt(site, n) == IF n \in DOMAIN site THEN site[n] ELSE P_empty

\* ul.pagination of the first listing page: whether the control is there,
\* whether its last item holds a link with an href, and the href as
\* split("page=") cuts it, each part a sequence of characters
Pager(c, a, parts) == [control |-> c, link |-> a, parts |-> parts]

Pagers ==
    { Pager(FALSE, FALSE, << >>),
      Pager(TRUE, FALSE, << >>),
      Pager(TRUE, TRUE, << <<"?">> >>),
      Pager(TRUE, TRUE, << <<"?">>, <<"3">> >>),
      Pager(TRUE, TRUE, << <<"?">>, <<"2">> >>),
      Pager(TRUE, TRUE, << <<"?">>, <<"0">> >>),
      Pager(TRUE, TRUE, << <<"?">>, <<"1", "&">>, <<"2">> >>),
      Pager(TRUE, TRUE, << <<"?">>, <<"a">> >>),
      Pager(TRUE, TRUE, << <<"?">>, << >> >>),
      Pager(TRUE, TRUE, << <<"?">>, <<"3", "&", "s">> >>) }

\* datetime.now(): the date as yyyymmdd and whether any time has passed since
\* midnight
Nows ==
    { [date |-> CurrentYear * 10000 + 301, tod |-> 0],
      [date |-> CurrentYear * 10000 + 301, tod |-> 1],
      [date |-> CurrentYear * 10000 + 115, tod |-> 1] }

\* every row the board can serve, and the detail page behind a link
AllRows == { R_feb, R_old, R_nodate, R_edge, R_unparsed, R_notitle, R_relative, R_about }

DetailPage(link) == (CHOOSE r \in AllRows : r.link = link).detail

(* ----------------- jobsps_scraper.py: the pure functions ---------------- *)

\* the day before a date
PrevDay(date) ==
    LET y == date \div 10000
        m == (date \div 100) % 100
        d == date % 100
    IN  IF d > 1 THEN date - 1
        ELSE IF m > 1 THEN y * 10000 + (m - 1) * 100 + DaysIn(m - 1, y)
        ELSE (y - 1) * 10000 + 1231

\* date - timedelta(days=n)
RECURSIVE MinusDays(_, _)
MinusDays(date, n) == IF n = 0 THEN date ELSE MinusDays(PrevDay(date), n - 1)

\* cutoff_date = datetime.now() - timedelta(days=MAX_AGE_DAYS)
CutoffDate(now) == [date |-> MinusDays(now.date, MAX_AGE_DAYS), tod |-> now.tod]

\* _parse_listing_date: midnight of the date as yyyymmdd, or -1 for None
_parse_listing_date(date_str) ==
    IF date_str.n = 3 THEN Strptime(date_str.d, date_str.b, date_str.y)
    ELSE IF date_str.n = 2 THEN Strptime(date_str.d, date_str.b, CurrentYear)
    ELSE -1

\* rows without a date treated as old
IsOld_Undated(posted_date, cutoff_date) ==
    \/ posted_date = -1
    \/ posted_date < cutoff_date.date
    \/ posted_date = cutoff_date.date /\ cutoff_date.tod > 0

\* if posted_date and posted_date < cutoff_date
IsOld(posted_date, cutoff_date) ==
    /\ posted_date # -1
    /\ \/ posted_date < cutoff_date.date
       \/ posted_date = cutoff_date.date /\ cutoff_date.tod > 0

\* _parse_listing_row returns None: if not title or not href
RowParses(row) == row.title # "" /\ row.link # Url("", "", "")

\* the dict _parse_listing_row returns
_parse_listing_row(row) ==
    [title |-> row.title, company |-> row.company, link |-> row.link,
     location |-> row.location, date_str |-> row.date_str]

\* the for loop of _scrape_listing_page over the rows of one page
RECURSIVE ListingRows(_, _)
ListingRows(rows_, cutoff_date) ==
    IF rows_ = << >> THEN [listing_jobs |-> << >>, has_old_jobs |-> FALSE]
    ELSE LET before == ListingRows(SubSeq(rows_, 1, Len(rows_) - 1), cutoff_date)
             row == rows_[Len(rows_)]
         IN  IF ~RowParses(row) THEN before
             ELSE IF IsOld(_parse_listing_date(row.date_str), cutoff_date)
             THEN [before EXCEPT !.has_old_jobs = TRUE]
             ELSE [before EXCEPT !.listing_jobs = Append(@, _parse_listing_row(row))]

\* a failed fetch that ends the paging
_scrape_listing_page_FailedStops(html, rows_, cutoff_date) ==
    IF html = "None" THEN [listing_jobs |-> << >>, has_old_jobs |-> TRUE]
    ELSE ListingRows(rows_, cutoff_date)

\* _scrape_listing_page: html is what _fetch_page returned
_scrape_listing_page(html, rows_, cutoff_date) ==
    IF html = "None" THEN [listing_jobs |-> << >>, has_old_jobs |-> FALSE]
    ELSE ListingRows(rows_, cutoff_date)

\* HttpUrl(link) validates: an absolute http(s) URL with a host
HttpUrlValid(link) == link.scheme \in {"http", "https"} /\ link.host # ""

\* `x or None` on a string
OrNone(x) == IF x = "" THEN "None" ELSE x

\* _extract_detail_metadata on the detail page behind link
Details(link) ==
    IF DetailPage(link) = "full"
    THEN [position_level |-> "level", location |-> "dloc", deadline |-> "dl",
          experience |-> "exp"]
    ELSE [position_level |-> "None", location |-> "None", deadline |-> "None",
          experience |-> "None"]

\* a fallback that gives up on the posting
_job_from_listing_Drops(listing) == << >>

\* _job_from_listing: the posting in a list, or the empty list for None
_job_from_listing(listing) ==
    IF HttpUrlValid(listing.link)
    THEN << [title |-> listing.title, company |-> OrNone(listing.company),
             link |-> listing.link, description |-> listing.title,
             source |-> "Jobs.ps", position_level |-> "None",
             location |-> listing.location, deadline |-> "None",
             experience |-> "None", posted_date |-> listing.date_str] >>
    ELSE << >>

\* _scrape_detail_page: html is what _fetch_page returned for the link
_scrape_detail_page(listing, html) ==
    IF html = "None" THEN _job_from_listing(listing)
    ELSE IF HttpUrlValid(listing.link)
    THEN LET details == Details(listing.link)
         IN  << [title |-> listing.title, company |-> OrNone(listing.company),
                 link |-> listing.link, description |-> listing.title,
                 source |-> "Jobs.ps", position_level |-> details.position_level,
                 location |-> IF details.location # "None" THEN details.location
                              ELSE listing.location,
                 deadline |-> details.deadline, experience |-> details.experience,
                 posted_date |-> listing.date_str] >>
    ELSE _job_from_listing(listing)

DigitVal ==
    [c \in {"0", "1", "2", "3", "4", "5", "6", "7", "8", "9"} |->
        CASE c = "0" -> 0 [] c = "1" -> 1 [] c = "2" -> 2 [] c = "3" -> 3
          [] c = "4" -> 4 [] c = "5" -> 5 [] c = "6" -> 6 [] c = "7" -> 7
          [] c = "8" -> 8 [] c = "9" -> 9]

\* int(text) raises ValueError unless text is a run of digits
IsIntLiteral(text) ==
    Len(text) > 0 /\ \A i \in 1..Len(text) : text[i] \in DOMAIN DigitVal

RECURSIVE IntOf(_)
IntOf(text) ==
    IF text = << >> THEN 0
    ELSE 10 * IntOf(SubSeq(text, 1, Len(text) - 1)) + DigitVal[text[Len(text)]]

\* a page count that falls back to no pages
_get_total_pages_DefaultZero(html, pager) ==
    IF html = "None" THEN 0
    ELSE IF /\ pager.control /\ pager.link
            /\ Len(pager.parts) > 1
            /\ IsIntLiteral(pager.parts[Len(pager.parts)])
    THEN IntOf(pager.parts[Len(pager.parts)])
    ELSE 0

\* a failed first fetch that still counts one page
_get_total_pages_FailedIsOne(html, pager) ==
    IF html = "None" THEN 1
    ELSE IF /\ pager.control /\ pager.link
            /\ Len(pager.parts) > 1
            /\ IsIntLiteral(pager.parts[Len(pager.parts)])
    THEN IntOf(pager.parts[Len(pager.parts)])
    ELSE 1

\* _get_total_pages: html is what _fetch_page returned for BASE_URL
_get_total_pages(html, pager) ==
    IF html = "None" THEN 0
    ELSE IF /\ pager.control /\ pager.link
            /\ Len(pager.parts) > 1
            /\ IsIntLiteral(pager.parts[Len(pager.parts)])
    THEN IntOf(pager.parts[Len(pager.parts)])
    ELSE 1

(* ------------------------------- state --------------------------------- *)

VARIABLES
    rows,               \* db.py: the jobs table, in insertion order
    columns,            \* db.py: the column names of the jobs table, {} without it
    _conn,              \* db.py: Database._conn of the run's store handle
    open_handles,       \* history: sqlite connections opened and not yet closed
    store_call,         \* history: the last call made on a bare store handle
    lpc,                \* main.py run_loop: position
    shutdown_event,     \* main.py run_loop: the asyncio.Event
    elapsed,            \* ticks the current wait_for has been pending
    runs,               \* run_pipeline executions started so far
    ppc,                \* main.py run_pipeline: position
    scraped_jobs,       \* main.py run_pipeline: the sorted list
    idx,                \* main.py run_pipeline: 1-based position of `job`
    is_new,             \* main.py run_pipeline: what save_job returned last
    exc,                \* main.py run_pipeline: the call whose exception left it
    db_error,           \* history: the engine failed under this run's save_job
    total_scraped, total_duplicates, total_posted, total_failed,
    send,               \* bot.py send_job_posting: one call's frame
    fetch,              \* jobsps_scraper.py _fetch_page: one call's frame
    scr,                \* jobsps_scraper.py scrape: one call's frame
    tg,                 \* telegram_scraper.py scrape: one call's frame
    call,               \* one call of a function that touches no other state
    outcome,            \* history: what happened to each posting of this run
    send_calls,         \* history: send_job_posting invocations per link
    hist                \* history: run_loop's observations, links whose delivery failed

vars == << rows, columns, _conn, open_handles, store_call, lpc, shutdown_event, elapsed,
           runs, ppc, scraped_jobs, idx, is_new, exc, db_error, total_scraped,
           total_duplicates, total_posted, total_failed, send, fetch, scr, tg,
           call, outcome, send_calls, hist >>

storeVars == << rows, columns, _conn, open_handles >>
\* the frames that run_loop and its callees never touch
auxVars == << store_call, scr, tg, call >>
loopVars == << lpc, shutdown_event, elapsed, runs, hist >>
countVars == << total_scraped, total_duplicates, total_posted, total_failed >>
runVars == << ppc, scraped_jobs, idx, is_new, exc, db_error, outcome >>

(* --------------------------- db.py: the store -------------------------- *)

\* a property that connects again when the handle was closed
connection_Reconnects(conn) == IF conn = "None" THEN "open" ELSE conn

\* Database.connection: the open connection, or RuntimeError
connection(conn) == IF conn = "None" THEN "RuntimeError" ELSE conn

\* close without the `if self._conn` test: None.close() raises
close_NoGuard(conn) ==
    IF conn # "None"
    THEN [conn |-> "None", released |-> 1, ret |-> "None"]
    ELSE [conn |-> "None", released |-> 0, ret |-> "AttributeError"]

\* Database.close: the handle afterwards, the connections released, the result
close(conn) ==
    IF conn # "None"
    THEN [conn |-> "None", released |-> 1, ret |-> "None"]
    ELSE [conn |-> conn, released |-> 0, ret |-> "None"]

\* a with block that does not close
__exit___NoClose(conn) == [conn |-> conn, released |-> 0, ret |-> "None"]

\* Database.__exit__: self.close()
__exit__(conn) == close(conn)

\* the link column without its UNIQUE constraint
UniqueViolation_NoConstraint(table, job) == FALSE

\* link TEXT NOT NULL UNIQUE: the INSERT raises sqlite3.IntegrityError
UniqueViolation(table, job) == \E i \in 1..Len(table) : table[i].link = job.link

\* the columns of CREATE TABLE IF NOT EXISTS jobs before the metadata columns
\* were introduced
BaseColumns ==
    { "id", "title", "company", "link", "description", "source", "created_at" }

\* _migrate_add_columns: new_columns, in the dict's order
new_columns ==
    << "position_level", "location", "deadline", "experience", "posted_date" >>

Range(f) == { f[i] : i \in DOMAIN f }

\* the columns of the CREATE TABLE statement of init_db
AllColumns == BaseColumns \cup Range(new_columns)

\* the column list of the INSERT of save_job and of a SELECT of the ten fields
InsertColumns == AllColumns \ { "id", "created_at" }

\* sqlite3 binds Python's None as NULL ...
ToSql(v) == IF v = "None" THEN "NULL" ELSE v

\* ... and hands NULL back as None
FromSql(v) == IF v = "NULL" THEN "None" ELSE v

\* the VALUES tuple bound with position_level and location exchanged
NewRow_Swapped(table, job) ==
    [id |-> Len(table) + 1, title |-> job.title, company |-> ToSql(job.company),
     link |-> job.link, description |-> job.description, source |-> job.source,
     position_level |-> ToSql(job.location),
     location |-> ToSql(job.position_level),
     deadline |-> ToSql(job.deadline), experience |-> ToSql(job.experience),
     posted_date |-> job.posted_date, created_at |-> "CURRENT_TIMESTAMP"]

\* id INTEGER PRIMARY KEY AUTOINCREMENT, the ten inserted columns (link is
\* str(job.link)) and created_at's default; a posted_date of NoDate is the
\* unset one
NewRow(table, job) ==
    [id |-> Len(table) + 1, title |-> job.title, company |-> ToSql(job.company),
     link |-> job.link, description |-> job.description, source |-> job.source,
     position_level |-> ToSql(job.position_level),
     location |-> ToSql(job.location),
     deadline |-> ToSql(job.deadline), experience |-> ToSql(job.experience),
     posted_date |-> job.posted_date, created_at |-> "CURRENT_TIMESTAMP"]

\* SELECT title, company, link, description, source, position_level, location,
\* deadline, experience, posted_date FROM jobs WHERE link = ?, as Python values
SelectByLink(table, link) ==
    LET Pick(r) == [c \in InsertColumns |->
                      IF c = "posted_date" THEN r[c] ELSE FromSql(r[c])]
        RECURSIVE Sel(_)
        Sel(n) == IF n = 0 THEN << >>
                  ELSE IF table[n].link = link THEN Append(Sel(n - 1), Pick(table[n]))
                  ELSE Sel(n - 1)
    IN  Sel(Len(table))

\* CREATE TABLE IF NOT EXISTS jobs (...): a database without the table gets it
\* with every column, an existing table is left as it is
CreateTable(db) ==
    IF db.columns = {} THEN [columns |-> AllColumns, rows |-> << >>] ELSE db

\* NULL in a column; the posted_date column holds the parts of the date, and
\* NoDate is its NULL
SqlNull(col) == IF col = "posted_date" THEN NoDate ELSE "NULL"

\* ALTER TABLE jobs ADD COLUMN <col> TEXT: the rows get NULL in it
AddColumn(db, col) ==
    [columns |-> db.columns \cup {col},
     rows |-> [i \in 1..Len(db.rows) |->
                 [c \in (DOMAIN db.rows[i]) \cup {col} |->
                    IF c = col THEN SqlNull(col) ELSE db.rows[i][c]]]]

\* a migration that adds every metadata column without looking
RECURSIVE MigrateFrom_AddsAll(_, _, _)
MigrateFrom_AddsAll(db, existing_columns, n) ==
    IF n = 0 THEN db
    ELSE AddColumn(MigrateFrom_AddsAll(db, existing_columns, n - 1), new_columns[n])

\* the for loop of _migrate_add_columns over the first n of new_columns;
\* existing_columns is read from PRAGMA table_info once, before the loop
RECURSIVE MigrateFrom(_, _, _)
MigrateFrom(db, existing_columns, n) ==
    IF n = 0 THEN db
    ELSE LET before == MigrateFrom(db, existing_columns, n - 1)
         IN  IF new_columns[n] \notin existing_columns
             THEN AddColumn(before, new_columns[n])
             ELSE before

\* Database._migrate_add_columns
_migrate_add_columns(db) == MigrateFrom(db, db.columns, Len(new_columns))

\* Database.init_db
init_db(db) == _migrate_add_columns(CreateTable(db))

\* an engine failure reported as a duplicate
save_job_ErrorIsFalse(table, job, db_fails) ==
    IF db_fails \/ UniqueViolation(table, job) THEN [ret |-> "False", table |-> table]
    ELSE [ret |-> "True", table |-> Append(table, NewRow(table, job))]

\* Database.save_job: "error" stands for any exception other than
\* IntegrityError (it is logged and re-raised); db_fails says the engine raised one
save_job(table, job, db_fails) ==
    IF db_fails THEN [ret |-> "error", table |-> table]
    ELSE IF UniqueViolation(table, job) THEN [ret |-> "False", table |-> table]
    ELSE [ret |-> "True", table |-> Append(table, NewRow(table, job))]

\* db.save_job(job) called on a bare handle: the connection property raises
\* inside the try, and the generic except re-raises
StoreSave ==
    /\ \E job \in Postings \cup {J_full}, db_fails \in BOOLEAN :
         IF connection(_conn) = "RuntimeError"
         THEN /\ store_call' = [store_call EXCEPT !.op = "save_job",
                                                   !.ret = "RuntimeError",
                                                   !.arg = << job >>]
              /\ rows' = rows
         ELSE LET r == save_job(rows, job, db_fails)
              IN  /\ rows' = r.table
                  /\ store_call' = [store_call EXCEPT !.op = "save_job",
                                                       !.ret = r.ret,
                                                       !.arg = << job >>]
    /\ UNCHANGED << columns, _conn, open_handles, loopVars, countVars, runVars,
                    send, fetch, scr, tg, call, send_calls >>

\* db.close() called on a bare handle
StoreClose ==
    /\ store_call.closes < MaxCloses
    /\ _conn' = close(_conn).conn
    /\ open_handles' = open_handles - close(_conn).released
    /\ store_call' = [store_call EXCEPT !.op = "close", !.ret = close(_conn).ret,
                                         !.closes = store_call.closes + 1,
                                         !.arg = << >>]
    /\ UNCHANGED << rows, columns, loopVars, countVars, runVars, send, fetch, scr, tg,
                    call, send_calls >>

\* a duplicate test made on the table as it was when save_job was entered
InsertSees_Precheck(at_entry, at_insert) == at_entry

\* the UNIQUE test is part of the INSERT statement: it reads the table as it is
\* when cursor.execute runs, not as it was when save_job was entered
InsertSees(at_entry, at_insert) == at_insert

\* two save_job calls in flight, one per handle on the same database file;
\* trace is the order of their steps, before the table they started from
TwoCalls(job1, job2, table) ==
    [pc |-> << "idle", "idle" >>, job |-> << job1, job2 >>,
     at_entry |-> << << >>, << >> >>, ret |-> << "None", "None" >>,
     trace |-> << >>, before |-> table]

\* handle h enters save_job: self.connection.cursor()
TwoBegin(h) ==
    /\ call.pc[h] = "idle"
    /\ call' = [call EXCEPT !.pc[h] = "called", !.at_entry[h] = rows,
                            !.trace = Append(@, << "begin", h >>)]
    /\ UNCHANGED << storeVars, store_call, loopVars, countVars, runVars, send, fetch,
                    scr, tg, send_calls >>

\* handle h runs cursor.execute(INSERT ...) and commit, under the engine's
\* write lock, and save_job returns or raises
TwoInsert(h) ==
    /\ call.pc[h] = "called"
    /\ \E db_fails \in BOOLEAN :
         LET r == save_job(InsertSees(call.at_entry[h], rows), call.job[h], db_fails)
         IN  /\ rows' = IF r.ret = "True"
                        THEN Append(rows, NewRow(rows, call.job[h]))
                        ELSE rows
             /\ call' = [call EXCEPT !.pc[h] = "returned", !.ret[h] = r.ret,
                                     !.trace = Append(@, << "insert", h >>)]
    /\ UNCHANGED << columns, _conn, open_handles, store_call, loopVars, countVars,
                    runVars, send, fetch, scr, tg, send_calls >>

\* Database(db_path) on the file as it is: connect, then init_db; before
\* collects the database as each init_db found it
DatabaseOpen ==
    /\ _conn = "None"
    /\ store_call.op = "none"
    /\ _conn' = "open"
    /\ open_handles' = open_handles + 1
    /\ rows' = init_db([columns |-> columns, rows |-> rows]).rows
    /\ columns' = init_db([columns |-> columns, rows |-> rows]).columns
    /\ store_call' = [store_call EXCEPT
                        !.op = "init_db", !.ret = "None", !.arg = << >>,
                        !.inits = store_call.inits + 1,
                        !.before = Append(store_call.before,
                                          [columns |-> columns, rows |-> rows])]
    /\ UNCHANGED << loopVars, countVars, runVars, send, fetch, scr, tg, call,
                    send_calls >>

\* db.init_db() called again on the handle
StoreInitDb ==
    /\ store_call.op # "none"
    /\ store_call.inits < MaxInits
    /\ IF connection(_conn) = "RuntimeError"
       THEN /\ store_call' = [store_call EXCEPT !.op = "init_db",
                                                 !.ret = "RuntimeError",
                                                 !.arg = << >>]
            /\ UNCHANGED << rows, columns >>
       ELSE /\ rows' = init_db([columns |-> columns, rows |-> rows]).rows
            /\ columns' = init_db([columns |-> columns, rows |-> rows]).columns
            /\ store_call' = [store_call EXCEPT
                                !.op = "init_db", !.ret = "None", !.arg = << >>,
                                !.inits = store_call.inits + 1,
                                !.before = Append(store_call.before,
                                                  [columns |-> columns,
                                                   rows |-> rows])]
    /\ UNCHANGED << _conn, open_handles, loopVars, countVars, runVars, send, fetch,
                    scr, tg, call, send_calls >>

\* db.save_job(job) on a handle that Database(db_path) returned
OpenedSave ==
    /\ store_call.op # "none"
    /\ StoreSave

(* ----------------------- bot.py: send_job_posting ---------------------- *)

RECURSIVE Pow2(_)
Pow2(n) == IF n <= 0 THEN 1 ELSE 2 * Pow2(n - 1)

\* a backoff that grows linearly
SendBackoff_Linear(initial_backoff, attempt) == initial_backoff * attempt

\* backoff = initial_backoff * (2 ** (attempt - 1))
SendBackoff(initial_backoff, attempt) == initial_backoff * Pow2(attempt - 1)

\* giving up one attempt early
SendIsLastAttempt_Early(attempt, max_retries) == attempt >= max_retries - 1

\* if attempt == max_retries
SendIsLastAttempt(attempt, max_retries) == attempt = max_retries

SendIdle ==
    [pc |-> "idle", max_retries |-> 0, initial_backoff |-> 0, attempt |-> 0,
     results |-> <<>>, waits |-> <<>>, exc |-> 0]

\* the frame on entry: attempt is the loop variable of range(1, max_retries + 1)
SendCall(max_retries, initial_backoff) ==
    [pc |-> "loop", max_retries |-> max_retries, initial_backoff |-> initial_backoff,
     attempt |-> 1, results |-> <<>>, waits |-> <<>>, exc |-> 0]

\* bot.send_message returned: return
SendAttemptOk ==
    /\ send.pc = "loop"
    /\ send.attempt <= send.max_retries
    /\ send' = [send EXCEPT !.pc = "returned", !.results = Append(@, TRUE)]
    /\ UNCHANGED << storeVars, loopVars, countVars, runVars, fetch, send_calls >>
    /\ UNCHANGED auxVars

\* bot.send_message raised: the exception of attempt k is named k
SendAttemptFail ==
    /\ send.pc = "loop"
    /\ send.attempt <= send.max_retries
    /\ send' =
         IF SendIsLastAttempt(send.attempt, send.max_retries)
         THEN [send EXCEPT !.pc = "raised", !.results = Append(@, FALSE),
                           !.exc = send.attempt]
         ELSE [send EXCEPT !.results = Append(@, FALSE),
                           !.waits = Append(@, SendBackoff(send.initial_backoff, send.attempt)),
                           !.attempt = @ + 1]
    /\ UNCHANGED << storeVars, loopVars, countVars, runVars, fetch, send_calls >>
    /\ UNCHANGED auxVars

\* range(1, max_retries + 1) is exhausted: the function falls off its end
SendRangeEmpty ==
    /\ send.pc = "loop"
    /\ send.attempt > send.max_retries
    /\ send' = [send EXCEPT !.pc = "returned"]
    /\ UNCHANGED << storeVars, loopVars, countVars, runVars, fetch, send_calls >>
    /\ UNCHANGED auxVars

(* ---------------- jobsps_scraper.py: JobsPsScraper._fetch_page ---------- *)

\* what one navigation attempt meets: page.goto raises, returns no response or
\* a response with a status; the wait for the challenge page finds no
\* challenge ("none"), sees it cleared ("cleared") or has page.title,
\* wait_for_function or wait_for_load_state raise ("raises", a timeout
\* included); page.content() returns or raises. A step that is not reached is
\* "unused".
NavOutcome(g, st, w, c) == [goto |-> g, status |-> st, wait |-> w, content |-> c]

NavOutcomes ==
    { NavOutcome("raises", 0, "unused", "unused"),
      NavOutcome("none", 0, "none", "ok"),
      NavOutcome("none", 0, "raises", "ok"),
      NavOutcome("response", 200, "none", "ok"),
      NavOutcome("response", 200, "cleared", "ok"),
      NavOutcome("response", 200, "raises", "ok"),
      NavOutcome("response", 399, "raises", "ok"),
      NavOutcome("response", 400, "none", "unused"),
      NavOutcome("response", 400, "raises", "unused"),
      NavOutcome("response", 503, "cleared", "unused"),
      NavOutcome("response", 200, "none", "raises"),
      NavOutcome("response", 200, "raises", "raises") }

\* a wait whose exception reaches _fetch_page
_wait_for_cloudflare_Propagates(o) ==
    IF o.wait = "raises" THEN [exc |-> "Exception", logged |-> FALSE]
    ELSE [exc |-> "none", logged |-> FALSE]

\* _wait_for_cloudflare: try ... except Exception: logger.warning(...)
_wait_for_cloudflare(o) ==
    IF o.wait = "raises" THEN [exc |-> "none", logged |-> TRUE]
    ELSE [exc |-> "none", logged |-> FALSE]

\* only server errors treated as failures
StatusIsError_Only5xx(o) == o.goto = "response" /\ o.status >= 500

\* if response and response.status >= 400: raise
StatusIsError(o) == o.goto = "response" /\ o.status >= 400

\* the try body raised, so control is in `except Exception`
FetchAttemptRaised(o) ==
    \/ o.goto = "raises"
    \/ _wait_for_cloudflare(o).exc # "none"
    \/ StatusIsError(o)
    \/ o.content = "raises"

\* backoff = initial_backoff * (2 ** (attempt - 1))
FetchBackoff(initial_backoff, attempt) == initial_backoff * Pow2(attempt - 1)

\* if attempt == max_retries
FetchIsLastAttempt(attempt, max_retries) == attempt = max_retries

FetchIdle ==
    [pc |-> "idle", max_retries |-> 0, initial_backoff |-> 0, attempt |-> 0,
     results |-> <<>>, waits |-> <<>>, ret |-> "unset"]

FetchCall(max_retries, initial_backoff) ==
    [pc |-> "loop", max_retries |-> max_retries, initial_backoff |-> initial_backoff,
     attempt |-> 1, results |-> <<>>, waits |-> <<>>, ret |-> "unset"]

\* the frame after the attempt that met o; after the last failed attempt the
\* for loop ends and the function returns None
FetchAfter(f, o) ==
    IF ~FetchAttemptRaised(o)
    THEN [f EXCEPT !.pc = "returned", !.results = Append(@, o), !.ret = "content"]
    ELSE IF FetchIsLastAttempt(f.attempt, f.max_retries)
    THEN [f EXCEPT !.pc = "returned", !.results = Append(@, o), !.ret = "None"]
    ELSE [f EXCEPT !.results = Append(@, o),
                   !.waits = Append(@, FetchBackoff(f.initial_backoff, f.attempt)),
                   !.attempt = @ + 1]

FetchAttempt ==
    /\ fetch.pc = "loop"
    /\ fetch.attempt <= fetch.max_retries
    /\ \E o \in NavOutcomes : fetch' = FetchAfter(fetch, o)
    /\ UNCHANGED << storeVars, loopVars, countVars, runVars, send, send_calls >>
    /\ UNCHANGED auxVars

\* range(1, max_retries + 1) is empty: return None
FetchRangeEmpty ==
    /\ fetch.pc = "loop"
    /\ fetch.attempt > fetch.max_retries
    /\ fetch' = [fetch EXCEPT !.pc = "returned", !.ret = "None"]
    /\ UNCHANGED << storeVars, loopVars, countVars, runVars, send, send_calls >>
    /\ UNCHANGED auxVars

(* ---------- jobsps_scraper.py: _extract_detail_metadata ----------------- *)

\* the first script of type application/ld+json of a detail page. kind:
\* "absent" (no such tag, or an empty one), "invalid" (json.loads raises
\* JSONDecodeError), "array" (valid JSON that is not an object) or "object";
\* of an object, valid_through and experience are the values of validThrough
\* and experienceRequirements ("" when absent or empty) and job_location the
\* shape of jobLocation
LdBlock(kind, valid_through, experience, job_location) ==
    [kind |-> kind, valid_through |-> valid_through, experience |-> experience,
     job_location |-> job_location]

\* the shapes of jobLocation: absent, [], an object, a list whose first
\* element is a string, a list whose first element is an object without
\* address, with a string as address, with an address without (or with an
\* empty) addressLocality, with an address with addressLocality "Ramallah"
JobLocations ==
    { "absent", "empty_list", "object", "list_of_string", "no_address",
      "address_string", "no_locality", "locality" }

LdBlocks ==
    { LdBlock("absent", "", "", "absent"), LdBlock("invalid", "", "", "absent"),
      LdBlock("array", "", "", "absent") } \cup
    { LdBlock("object", vt, ex, jl) :
        vt \in {"", "2026-03-24"}, ex \in {"", "3 Years"}, jl \in JobLocations }

\* _parse_html_detail_items: the value under each label of the detail panel,
\* "" for a label the panel does not have (a label with an empty value is not
\* recorded)
Panels ==
    [position_level : {"", "Senior"}, location : {"", "Bethlehem"},
     deadline : {"", "15 - Apr - 2026"}, experience : {"", "5 Years"}]

\* `x.get(...)` on a value that is not an object: AttributeError, which the
\* except clause (JSONDecodeError, KeyError, IndexError) does not name
LdRaises(ld) ==
    \/ ld.kind = "array"
    \/ ld.kind = "object" /\ ld.job_location \in {"list_of_string", "address_string"}

\* details after the try block: "None" for a key that was not set
LdDetails(ld) ==
    IF ld.kind # "object"
    THEN [deadline |-> "None", experience |-> "None", location |-> "None"]
    ELSE [deadline |-> OrNone(ld.valid_through),
          experience |-> OrNone(ld.experience),
          location |-> IF ld.job_location = "locality" THEN "Ramallah" ELSE "None"]

\* if key not in details and label in html_details: details[key] = ...
PanelFallback(from_ld, from_panel) ==
    IF from_ld = "None" /\ from_panel # "" THEN from_panel ELSE from_ld

\* JobsPsScraper._extract_detail_metadata: what it raises and, when it
\* returns, the dict with "None" for a missing key
_extract_detail_metadata(ld, panel) ==
    IF LdRaises(ld)
    THEN [exc |-> "AttributeError", details |-> << >>]
    ELSE [exc |-> "none",
          details |->
            << [position_level |-> PanelFallback("None", panel.position_level),
                location |-> PanelFallback(LdDetails(ld).location, panel.location),
                deadline |-> PanelFallback(LdDetails(ld).deadline, panel.deadline),
                experience |->
                   PanelFallback(LdDetails(ld).experience, panel.experience)] >>]

DetailCall(ld, panel) ==
    [pc |-> "called", ld |-> ld, panel |-> panel, exc |-> "none", details |-> << >>]

\* _extract_detail_metadata runs to its return or raise
ExtractDetail ==
    /\ call.pc = "called"
    /\ call' = [call EXCEPT
                  !.pc = IF _extract_detail_metadata(call.ld, call.panel).exc = "none"
                         THEN "returned" ELSE "raised",
                  !.exc = _extract_detail_metadata(call.ld, call.panel).exc,
                  !.details = _extract_detail_metadata(call.ld, call.panel).details]
    /\ UNCHANGED << storeVars, store_call, loopVars, countVars, runVars, send, fetch,
                    scr, tg, send_calls >>

(* ------- main.py and jobsps_scraper.py: the two date parsers ----------- *)

\* date strings as split(",") sees them: no text at all, one part, two parts,
\* three parts (the third the year) and four parts
DateStrs ==
    {NoDate}
    \cup { [n |-> n, d |-> d, b |-> b, y |-> 0] :
             n \in {1, 2, 4}, d \in {0, 1, 24, 29, 30, 31, 32},
             b \in {"Jan", "Feb", "Apr", "Dec", "Foo", ""} }
    \cup { [n |-> 3, d |-> d, b |-> b, y |-> y] :
             d \in {0, 1, 24, 29, 30, 31, 32},
             b \in {"Jan", "Feb", "Apr", "Dec", "Foo", ""},
             y \in {0, 2024, 2025, CurrentYear, 9999, 10000} }

DateCall(date_str) ==
    [pc |-> "called", date_str |-> date_str, listing |-> "unset", posted |-> "unset"]

\* both parsers applied to the same string at the same clock
ParseDates ==
    /\ call.pc = "called"
    /\ call' = [call EXCEPT !.pc = "returned",
                            !.listing = _parse_listing_date(call.date_str),
                            !.posted = _parse_posted_date(call.date_str)]
    /\ UNCHANGED << storeVars, store_call, loopVars, countVars, runVars, send, fetch,
                    scr, tg, send_calls >>

\* sort_jobs_by_posted_date(jobs) called on its own
SortJobs ==
    /\ call.pc = "called"
    /\ call' = [call EXCEPT !.pc = "returned", !.ret = sort_jobs_by_posted_date(call.jobs)]
    /\ UNCHANGED << storeVars, store_call, loopVars, countVars, runVars, send, fetch,
                    scr, tg, send_calls >>

(* ---------------- jobsps_scraper.py: JobsPsScraper.scrape --------------- *)

\* what a _fetch_page call returns: page.content() or None
FetchResults == {"content", "None"}

\* the frame of scrape once the browser, context and page exist; pages_fetched,
\* page_html, page_old and details_fetched record the calls made so far
ScrCall(site, pager, now) ==
    [pc |-> "get_total_pages", site |-> site, pager |-> pager, now |-> now,
     cutoff_date |-> CutoffDate(now), base_html |-> "unset", total_pages |-> 0,
     page_num |-> 0, html |-> "unset", listing_jobs |-> << >>,
     has_old_jobs |-> FALSE, li |-> 0, jobs |-> << >>, pages_fetched |-> << >>,
     page_html |-> << >>, page_old |-> << >>, details_fetched |-> << >>,
     browser |-> "open"]

\* total_pages = await self._get_total_pages(...)
GetTotalPages ==
    /\ scr.pc = "get_total_pages"
    /\ \E html \in FetchResults :
         scr' = [scr EXCEPT !.pc = "for", !.base_html = html,
                            !.total_pages = _get_total_pages(html, scr.pager)]
    /\ UNCHANGED << storeVars, store_call, loopVars, countVars, runVars, send, fetch,
                    tg, call, send_calls >>

\* for page_num in range(1, total_pages + 1): _scrape_listing_page(...)
ListingPage ==
    /\ scr.pc = "for"
    /\ scr.page_num < scr.total_pages
    /\ \E html \in FetchResults :
         LET n == scr.page_num + 1
             r == _scrape_listing_page(html, PageAt(scr.site, n), scr.cutoff_date)
         IN  scr' = [scr EXCEPT !.pc = "details", !.page_num = n, !.html = html,
                                !.listing_jobs = r.listing_jobs,
                                !.has_old_jobs = r.has_old_jobs, !.li = 1,
                                !.pages_fetched = Append(@, n),
                                !.page_html = Append(@, html),
                                !.page_old = Append(@, r.has_old_jobs)]
    /\ UNCHANGED << storeVars, store_call, loopVars, countVars, runVars, send, fetch,
                    tg, call, send_calls >>

\* for listing in listing_jobs: _scrape_detail_page, append, sleep
ScrapeDetail ==
    /\ scr.pc = "details"
    /\ scr.li <= Len(scr.listing_jobs)
    /\ LET listing == scr.listing_jobs[scr.li]
           html == IF DetailPage(listing.link) = "down" THEN "None" ELSE "content"
       IN  scr' = [scr EXCEPT !.jobs = @ \o _scrape_detail_page(listing, html),
                              !.details_fetched = Append(@, listing.link),
                              !.li = @ + 1]
    /\ UNCHANGED << storeVars, store_call, loopVars, countVars, runVars, send, fetch,
                    tg, call, send_calls >>

\* a loop that never breaks
StopsPaging_Never(has_old_jobs) == FALSE

\* if has_old_jobs: break
StopsPaging(has_old_jobs) == has_old_jobs

\* the end of the inner loop: break, or back to the head of the for loop
AfterDetails ==
    /\ scr.pc = "details"
    /\ scr.li > Len(scr.listing_jobs)
    /\ scr' = [scr EXCEPT !.pc = IF StopsPaging(scr.has_old_jobs) THEN "finally"
                                 ELSE "for"]
    /\ UNCHANGED << storeVars, store_call, loopVars, countVars, runVars, send, fetch,
                    tg, call, send_calls >>

\* range(1, total_pages + 1) is used up
ForDone ==
    /\ scr.pc = "for"
    /\ scr.page_num >= scr.total_pages
    /\ scr' = [scr EXCEPT !.pc = "finally"]
    /\ UNCHANGED << storeVars, store_call, loopVars, countVars, runVars, send, fetch,
                    tg, call, send_calls >>

\* finally: context.close(), browser.close(); return jobs
ScrapeFinally ==
    /\ scr.pc = "finally"
    /\ scr' = [scr EXCEPT !.pc = "returned", !.browser = "closed"]
    /\ UNCHANGED << storeVars, store_call, loopVars, countVars, runVars, send, fetch,
                    tg, call, send_calls >>

(* -------------- telegram_scraper.py: TelegramScraper.scrape ------------- *)

\* an anchor's href as urlparse cuts it: scheme, the labels of the netloc
\* (each a sequence of characters) and the path
TgUrl(scheme, domain, path) == [scheme |-> scheme, domain |-> domain, path |-> path]

NoHref == TgUrl("", << >>, "")

\* div.tgme_widget_message_text: its non-empty stripped lines, the hrefs of its
\* anchors in document order, and data-post of the enclosing message ("" when
\* there is none)
Message(lines, anchors, data_post) ==
    [lines |-> lines, anchors |-> anchors, data_post |-> data_post]

U_board == TgUrl("https", << <<"j", "o", "b", "s">>, <<"p", "s">> >>, "/apply/1")
U_vbnet == TgUrl("http", << <<"v", "b">>, <<"n", "e", "t">> >>, "/")
U_mailto == TgUrl("mailto", << >>, "hr@corp")
U_VBNET == TgUrl("http", << <<"V", "B">>, <<"N", "E", "T">> >>, "/")
U_wwwasp == TgUrl("https", << <<"w", "w", "w">>, <<"a", "s", "p">>, <<"n", "e", "t">> >>, "/docs")
U_short == TgUrl("https", << <<"w", "w", "w">>, <<"a", "b", "c">>, <<"i", "o">> >>, "")
U_shortpath == TgUrl("https", << <<"a", "b", "c">>, <<"i", "o">> >>, "/jobs")
U_long == TgUrl("https", << <<"j", "o", "b", "s">>, <<"p", "s">> >>, "/")
U_three == TgUrl("https", << <<"a">>, <<"v", "b">>, <<"n", "e", "t">> >>, "/")

\* the hrefs an anchor of a message can carry
Hrefs ==
    { NoHref, U_board, U_vbnet, U_mailto, U_VBNET, U_wwwasp, U_short, U_shortpath,
      U_long, U_three }

M_board == Message(<< "Backend developer", "Apply now" >>, << U_vbnet, U_board >>, "chan/1")
M_permalink == Message(<< "VB.NET developer" >>, << U_vbnet >>, "chan/2")
M_nolink == Message(<< "Good morning" >>, << NoHref >>, "")
M_empty == Message(<< >>, << U_board >>, "chan/3")
M_mailto == Message(<< "QA engineer" >>, << U_mailto >>, "chan/4")
M_sales == Message(<< "Sales officer", "Apply now" >>, << >>, "chan/5")

\* the messages a channel preview page can hold
Channels ==
    { << >>,
      << M_board, M_nolink, M_permalink >>,
      << M_mailto, M_empty, M_board >>,
      << M_sales, M_board >> }

FALSE_POSITIVE_DOMAINS ==
    { << <<"v", "b">>, <<"n", "e", "t">> >>,
      << <<"a", "s", "p">>, <<"n", "e", "t">> >>,
      << <<"a", "d", "o">>, <<"n", "e", "t">> >> }

\* str.lower() on one character
LowerChar(c) ==
    CASE c = "V" -> "v" [] c = "B" -> "b" [] c = "N" -> "n" [] c = "E" -> "e"
      [] c = "T" -> "t" [] c = "W" -> "w" [] OTHER -> c

\* netloc.lower()
Lower(domain) ==
    [i \in 1..Len(domain) |-> [k \in 1..Len(domain[i]) |-> LowerChar(domain[i][k])]]

\* netloc.lower().removeprefix("www.")
Domain(url) ==
    IF Len(url.domain) > 1 /\ Lower(url.domain)[1] = <<"w", "w", "w">>
    THEN SubSeq(Lower(url.domain), 2, Len(url.domain))
    ELSE Lower(url.domain)

_is_valid_job_link(url) ==
    LET domain == Domain(url)
    IN  IF domain \in FALSE_POSITIVE_DOMAINS THEN FALSE
        ELSE IF /\ url.path \in {"", "/"}
                /\ Len(domain) > 1
                /\ Len(domain) = 2
                /\ Len(domain[1]) <= 3
        THEN FALSE
        ELSE TRUE

\* the hrefs that are non-empty and pass _is_valid_job_link, in document order
RECURSIVE ValidLinks(_)
ValidLinks(anchors) ==
    IF anchors = << >> THEN << >>
    ELSE LET href == anchors[1]
             rest == ValidLinks(SubSeq(anchors, 2, Len(anchors)))
         IN  IF href # NoHref /\ _is_valid_job_link(href) THEN << href >> \o rest
             ELSE rest

\* the last valid link instead of the first
_find_best_link_Last(msg) ==
    IF ValidLinks(msg.anchors) # << >>
    THEN << ValidLinks(msg.anchors)[Len(ValidLinks(msg.anchors))] >>
    ELSE IF msg.data_post # ""
    THEN << TgUrl("https", << <<"t">>, <<"m", "e">> >>, msg.data_post) >>
    ELSE << >>

\* _find_best_link: the link in a list, or the empty list for None
_find_best_link(msg) ==
    IF ValidLinks(msg.anchors) # << >> THEN << ValidLinks(msg.anchors)[1] >>
    ELSE IF msg.data_post # ""
    THEN << TgUrl("https", << <<"t">>, <<"m", "e">> >>, msg.data_post) >>
    ELSE << >>

\* a link field that accepts any string
TgLinkValid_Any(url) == TRUE

\* HttpUrl validation of Job.link on a parsed href
TgLinkValid(url) == url.scheme \in {"http", "https"} /\ url.domain # << >>

\* _parse_message: the posting in a list, or the empty list for None
_parse_message(msg) ==
    IF _find_best_link(msg) = << >> THEN << >>
    ELSE IF msg.lines = << >> THEN << >>
    ELSE IF ~TgLinkValid(_find_best_link(msg)[1]) THEN << >>
    ELSE << FullJob(msg.lines[1], "None", _find_best_link(msg)[1], msg.lines,
                    "Telegram", "None", "None", "None", "None", NoDate) >>

\* for msg in messages: job = self._parse_message(msg); if job: jobs.append(job)
RECURSIVE ParseMessages(_)
ParseMessages(messages) ==
    IF messages = << >> THEN << >>
    ELSE _parse_message(messages[1]) \o ParseMessages(SubSeq(messages, 2, Len(messages)))

\* what one attempt meets: "ok" (a response that raise_for_status accepts),
\* "http_error" (client.get or raise_for_status raises an httpx.HTTPError) or
\* "other_error" (any other Exception out of the try body)
TgOutcomes == {"ok", "http_error", "other_error"}

\* every exception retried
TgRetried_Any(o) == o # "ok"

\* except httpx.HTTPError: the attempts go on
TgRetried(o) == o = "http_error"

TgCall(max_retries, initial_backoff, messages) ==
    [pc |-> "loop", max_retries |-> max_retries, initial_backoff |-> initial_backoff,
     attempt |-> 1, results |-> << >>, waits |-> << >>, messages |-> messages,
     jobs |-> << >>]

\* the frame after the attempt that met o
TgAfter(f, o) ==
    IF o = "ok"
    THEN [f EXCEPT !.pc = "returned", !.results = Append(@, o),
                   !.jobs = @ \o ParseMessages(f.messages)]
    ELSE IF ~TgRetried(o)
    THEN [f EXCEPT !.pc = "returned", !.results = Append(@, o)]
    ELSE IF f.attempt = f.max_retries
    THEN [f EXCEPT !.pc = "returned", !.results = Append(@, o)]
    ELSE [f EXCEPT !.results = Append(@, o),
                   !.waits = Append(@, f.initial_backoff * Pow2(f.attempt - 1)),
                   !.attempt = @ + 1]

TgAttempt ==
    /\ tg.pc = "loop"
    /\ tg.attempt <= tg.max_retries
    /\ \E o \in TgOutcomes : tg' = TgAfter(tg, o)
    /\ UNCHANGED << storeVars, store_call, loopVars, countVars, runVars, send, fetch,
                    scr, call, send_calls >>

\* range(1, max_retries + 1) is empty: return jobs
TgRangeEmpty ==
    /\ tg.pc = "loop"
    /\ tg.attempt > tg.max_retries
    /\ tg' = [tg EXCEPT !.pc = "returned"]
    /\ UNCHANGED << storeVars, store_call, loopVars, countVars, runVars, send, fetch,
                    scr, call, send_calls >>

\* the call self._parse_message(msg) of the message loop
ParseCall(msg) == [pc |-> "called", msg |-> msg, link |-> << >>, ret |-> << >>]

\* _parse_message runs to its return; link is what its _find_best_link call gave
ParseMessage ==
    /\ call.pc = "called"
    /\ call' = [call EXCEPT !.pc = "returned",
                            !.link = _find_best_link(call.msg),
                            !.ret = _parse_message(call.msg)]
    /\ UNCHANGED << storeVars, store_call, loopVars, countVars, runVars, send, fetch,
                    scr, tg, send_calls >>

(* ------------------------ filters.py: JobFilter ------------------------ *)

\* the lines of the messages above in which the compiled pattern finds a
\* keyword as a whole word, case ignored: developer, backend, qa, engineer
KeywordLines == { "Backend developer", "VB.NET developer", "QA engineer" }

\* JobFilter.is_it_job on a text given as its lines
is_it_job(text) ==
    IF text = << >> THEN FALSE
    ELSE \E i \in 1..Len(text) : text[i] \in KeywordLines

(* ------------------------ demo_scraper.py: main ------------------------ *)

DemoStart == [pc |-> "start", idx |-> 0, new_jobs_count |-> 0]

\* db = Database("jobs_demo.db"); scraper = TelegramScraper(...); up to the
\* await of scraper.scrape() with its default arguments
DemoMain ==
    /\ call.pc = "start"
    /\ _conn' = "open"
    /\ open_handles' = open_handles + 1
    /\ rows' = init_db([columns |-> columns, rows |-> rows]).rows
    /\ columns' = init_db([columns |-> columns, rows |-> rows]).columns
    /\ \E msgs \in Channels : tg' = TgCall(MAX_RETRIES, INITIAL_BACKOFF, msgs)
    /\ call' = [call EXCEPT !.pc = "scraping"]
    /\ UNCHANGED << store_call, loopVars, countVars, runVars, send, fetch, scr,
                    send_calls >>

\* jobs = await scraper.scrape() is over; new_jobs_count = 0
DemoScraped ==
    /\ call.pc = "scraping"
    /\ tg.pc = "returned"
    /\ call' = [call EXCEPT !.pc = "for", !.idx = 1]
    /\ UNCHANGED << storeVars, store_call, loopVars, countVars, runVars, send, fetch,
                    scr, tg, send_calls >>

\* one iteration of `for job in jobs`: if db.save_job(job): new_jobs_count += 1;
\* an exception of save_job leaves main
DemoSave ==
    /\ call.pc = "for"
    /\ call.idx <= Len(tg.jobs)
    /\ \E db_fails \in BOOLEAN :
         LET r == save_job(rows, tg.jobs[call.idx], db_fails)
         IN  /\ rows' = r.table
             /\ call' = IF r.ret = "error" THEN [call EXCEPT !.pc = "raised"]
                        ELSE [call EXCEPT
                                !.idx = @ + 1,
                                !.new_jobs_count = IF r.ret = "True" THEN @ + 1 ELSE @]
    /\ UNCHANGED << columns, _conn, open_handles, store_call, loopVars, countVars,
                    runVars, send, fetch, scr, tg, send_calls >>

\* the loop is exhausted: the summary is logged and main returns
DemoDone ==
    /\ call.pc = "for"
    /\ call.idx > Len(tg.jobs)
    /\ call' = [call EXCEPT !.pc = "returned"]
    /\ UNCHANGED << storeVars, store_call, loopVars, countVars, runVars, send, fetch,
                    scr, tg, send_calls >>

(* --------------------- formatter.py: JobFormatter ---------------------- *)

\* the reserved characters without the backslash; "BACKTICK" is the grave
\* accent character
ESCAPE_CHARS_NoBackslash ==
    << "_", "*", "[", "]", "(", ")", "~", "BACKTICK", ">", "#", "+", "-", "=", "|", "{",
       "}", ".", "!" >>

\* ESCAPE_CHARS, a raw string literal: its last two characters are both
\* backslashes
ESCAPE_CHARS ==
    << "_", "*", "[", "]", "(", ")", "~", "BACKTICK", ">", "#", "+", "-", "=", "|", "{",
       "}", ".", "!", "\\", "\\" >>

\* what the character class [ re.escape(ESCAPE_CHARS) ] matches: re.escape
\* puts a backslash before each special character, so inside the brackets
\* every character of ESCAPE_CHARS stands for itself
EscapeClass == Range(ESCAPE_CHARS)

\* the replacement template r"\\\1": a backslash, then the matched character
EscapeRepl(c) == << "\\", c >>

\* re.sub over a text given as its sequence of characters
RECURSIVE ReSub(_)
ReSub(text) ==
    IF text = << >> THEN << >>
    ELSE (IF text[1] \in EscapeClass THEN EscapeRepl(text[1]) ELSE << text[1] >>)
         \o ReSub(Tail(text))

\* JobFormatter.escape_markdown
escape_markdown(text) == IF text = << >> THEN << >> ELSE ReSub(text)

\* the characters the texts are made of: every reserved one, a letter, a space
TextChars ==
    { "_", "*", "[", "]", "(", ")", "~", "BACKTICK", ">", "#", "+", "-", "=", "|",
      "{", "}", ".", "!", "\\", "a", " " }

EscapeCall(text) == [pc |-> "called", text |-> text, ret |-> << >>]

\* escape_markdown runs to its return
EscapeMarkdown ==
    /\ call.pc = "called"
    /\ call' = [call EXCEPT !.pc = "returned", !.ret = escape_markdown(call.text)]
    /\ UNCHANGED << storeVars, store_call, loopVars, countVars, runVars, send, fetch,
                    scr, tg, send_calls >>

(* ------------------------ main.py: run_pipeline ------------------------ *)

\* the positions at which run_pipeline is suspended in an await
AwaitStates == {"scraping", "sending", "sleep"}

\* the duplicate test left out
SkipsDelivery_Never(new) == FALSE

\* if not is_new: ... continue
SkipsDelivery(new) == new = "False"

\* leaving the with block of run_pipeline
LeaveWith ==
    /\ _conn' = __exit__(_conn).conn
    /\ open_handles' = open_handles - __exit__(_conn).released

\* with Database(db_path=DB_PATH) as db, up to `await scraper.scrape()`
EnterPipeline ==
    /\ _conn' = "open"
    /\ rows' = init_db([columns |-> columns, rows |-> rows]).rows
    /\ columns' = init_db([columns |-> columns, rows |-> rows]).columns
    /\ open_handles' = open_handles + 1
    /\ db_error' = FALSE
    /\ ppc' = "scraping"
    /\ scraped_jobs' = <<>>
    /\ idx' = 0
    /\ is_new' = "unset"
    /\ exc' = "none"
    /\ total_scraped' = 0
    /\ total_duplicates' = 0
    /\ total_posted' = 0
    /\ total_failed' = 0
    /\ outcome' = <<>>
    /\ UNCHANGED << send, fetch, send_calls >>

\* scraper.scrape() returned: sort, set the counters, enter the for loop
ScrapeReturns ==
    /\ ppc = "scraping"
    /\ \E jobs \in JobLists :
         /\ scraped_jobs' = sort_jobs_by_posted_date(jobs)
         /\ total_scraped' = Len(jobs)
    /\ idx' = 1
    /\ ppc' = "for"
    /\ UNCHANGED << storeVars, loopVars, is_new, exc, db_error, total_duplicates,
                    total_posted, total_failed, send, fetch, outcome, send_calls >>
    /\ UNCHANGED auxVars

\* scraper.scrape() raised: __exit__ closes the store, the exception leaves
ScrapeRaises ==
    /\ ppc = "scraping"
    /\ ppc' = "raised"
    /\ exc' = "scrape"
    /\ LeaveWith
    /\ UNCHANGED << rows, columns, loopVars, countVars, scraped_jobs, idx, is_new, db_error,
                    send, fetch, outcome, send_calls >>
    /\ UNCHANGED auxVars

\* one iteration of the for loop up to its first await: save_job, the
\* duplicate test, format_job and the call of send_job_posting
SaveJob ==
    /\ ppc = "for"
    /\ idx <= Len(scraped_jobs)
    /\ \E db_fails \in BOOLEAN :
         LET job == scraped_jobs[idx]
             r == save_job(rows, job, db_fails)
         IN  /\ rows' = r.table
             /\ db_error' = db_fails
             /\ IF r.ret = "error"
                THEN /\ ppc' = "raised"
                     /\ exc' = "save_job"
                     /\ LeaveWith
                     /\ UNCHANGED << is_new, idx, total_duplicates, outcome, send,
                                     send_calls >>
                ELSE /\ is_new' = r.ret
                     /\ UNCHANGED << _conn, open_handles, exc >>
                     /\ IF SkipsDelivery(r.ret)
                        THEN /\ total_duplicates' = total_duplicates + 1
                             /\ outcome' = Append(outcome, "dup")
                             /\ idx' = idx + 1
                             /\ ppc' = "for"
                             /\ UNCHANGED << send, send_calls >>
                        ELSE /\ send' = SendCall(MAX_RETRIES, INITIAL_BACKOFF)
                             /\ send_calls' = [send_calls EXCEPT ![job.link] = @ + 1]
                             /\ ppc' = "sending"
                             /\ UNCHANGED << idx, total_duplicates, outcome >>
    /\ UNCHANGED << columns, loopVars, scraped_jobs, total_scraped, total_posted,
                    total_failed, fetch >>
    /\ UNCHANGED auxVars

\* a delivery that is not counted
SendReturned_NotCounted ==
    /\ ppc = "sending"
    /\ send.pc = "returned"
    /\ outcome' = Append(outcome, "sent")
    /\ ppc' = "sleep"
    /\ send' = SendIdle
    /\ UNCHANGED << storeVars, loopVars, countVars, scraped_jobs, idx, is_new, exc, db_error,
                    fetch, send_calls >>
    /\ UNCHANGED auxVars

\* send_job_posting returned: total_posted += 1, then await asyncio.sleep(1)
SendReturned ==
    /\ ppc = "sending"
    /\ send.pc = "returned"
    /\ total_posted' = total_posted + 1
    /\ outcome' = Append(outcome, "sent")
    /\ ppc' = "sleep"
    /\ send' = SendIdle
    /\ UNCHANGED << storeVars, loopVars, scraped_jobs, idx, is_new, exc, db_error, total_scraped,
                    total_duplicates, total_failed, fetch, send_calls >>
    /\ UNCHANGED auxVars

\* a failed delivery that is not caught per item: it leaves run_pipeline
SendRaised_Propagates ==
    /\ ppc = "sending"
    /\ send.pc = "raised"
    /\ ppc' = "raised"
    /\ exc' = "send_job_posting"
    /\ LeaveWith
    /\ send' = SendIdle
    /\ UNCHANGED << rows, columns, loopVars, countVars, scraped_jobs, idx, is_new, db_error,
                    fetch, outcome, send_calls >>
    /\ UNCHANGED auxVars

\* a failed delivery that is followed by the pause
SendRaised_Pauses ==
    /\ ppc = "sending"
    /\ send.pc = "raised"
    /\ total_failed' = total_failed + 1
    /\ outcome' = Append(outcome, "failed")
    /\ ppc' = "sleep"
    /\ send' = SendIdle
    /\ UNCHANGED << storeVars, loopVars, scraped_jobs, idx, is_new, exc, db_error, total_scraped,
                    total_duplicates, total_posted, fetch, send_calls >>
    /\ UNCHANGED auxVars

\* a failed delivery that takes the posting's row out of the store again
SendRaised_Unstores ==
    /\ ppc = "sending"
    /\ send.pc = "raised"
    /\ total_failed' = total_failed + 1
    /\ outcome' = Append(outcome, "failed")
    /\ hist' = [hist EXCEPT !.failed = @ \cup {scraped_jobs[idx].link}]
    /\ rows' = SelectSeq(rows, LAMBDA r : r.link # scraped_jobs[idx].link)
    /\ idx' = idx + 1
    /\ ppc' = "for"
    /\ send' = SendIdle
    /\ UNCHANGED << columns, _conn, open_handles, lpc, shutdown_event, elapsed, runs, scraped_jobs,
                    is_new, exc, db_error, total_scraped, total_duplicates, total_posted, fetch,
                    send_calls >>
    /\ UNCHANGED auxVars

\* send_job_posting raised: except Exception, total_failed += 1, next posting
SendRaised ==
    /\ ppc = "sending"
    /\ send.pc = "raised"
    /\ total_failed' = total_failed + 1
    /\ outcome' = Append(outcome, "failed")
    /\ hist' = [hist EXCEPT !.failed = @ \cup {scraped_jobs[idx].link}]
    /\ idx' = idx + 1
    /\ ppc' = "for"
    /\ send' = SendIdle
    /\ UNCHANGED << storeVars, lpc, shutdown_event, elapsed, runs, scraped_jobs, is_new, exc,
                    db_error, total_scraped, total_duplicates, total_posted, fetch, send_calls >>
    /\ UNCHANGED auxVars

\* asyncio.sleep(1) is over: next posting
SleepDone ==
    /\ ppc = "sleep"
    /\ idx' = idx + 1
    /\ ppc' = "for"
    /\ UNCHANGED << storeVars, loopVars, countVars, scraped_jobs, is_new, exc, db_error, send,
                    fetch, outcome, send_calls >>
    /\ UNCHANGED auxVars

\* the for loop is exhausted: __exit__ closes the store, run_pipeline returns
PipelineReturns ==
    /\ ppc = "for"
    /\ idx > Len(scraped_jobs)
    /\ ppc' = "returned"
    /\ LeaveWith
    /\ UNCHANGED << rows, columns, loopVars, countVars, scraped_jobs, idx, is_new, exc, db_error, send,
                    fetch, outcome, send_calls >>
    /\ UNCHANGED auxVars

(* -------------------------- main.py: run_loop -------------------------- *)

\* while not shutdown_event.is_set()
WhileCondition(ev) == ~ev

\* the break test left out
BreakAfterRun_Never(ev) == FALSE

\* if shutdown_event.is_set(): break
BreakAfterRun(ev) == ev

\* a plain sleep of the whole interval
WaitForDone_SleepOnly(ev, el) == el >= IntervalTicks

\* asyncio.wait_for(shutdown_event.wait(), timeout=interval_minutes * 60)
\* is over: the event is set, or the timeout has elapsed
WaitForDone(ev, el) == ev \/ el >= IntervalTicks

\* the while test, and what follows it up to the next await
LoopTest ==
    IF WhileCondition(shutdown_event)
    THEN /\ runs < MaxRuns
         /\ runs' = runs + 1
         /\ lpc' = "in_pipeline"
         /\ EnterPipeline
    ELSE /\ lpc' = "done"
         /\ UNCHANGED << runs, storeVars, countVars, runVars, send, fetch, send_calls >>

\* run_loop is called: the handlers are registered, the loop is entered
LoopEnter ==
    /\ lpc = "start"
    /\ LoopTest
    /\ UNCHANGED << shutdown_event, elapsed, hist >>
    /\ UNCHANGED auxVars

\* _signal_handler: the event loop runs it while the task is suspended
Signal ==
    /\ ~shutdown_event
    /\ \/ lpc = "waiting"
       \/ lpc = "in_pipeline" /\ ppc \in AwaitStates
    /\ shutdown_event' = TRUE
    /\ hist' = [hist EXCEPT !.sig_at = lpc, !.sig_elapsed = elapsed, !.sig_runs = runs]
    /\ UNCHANGED << lpc, elapsed, runs, storeVars, countVars, runVars, send, fetch,
                    send_calls >>
    /\ UNCHANGED auxVars

\* a loop that gives up after a failed run
LoopAfter_StopOnError(result, ev) ==
    IF result = "raised" \/ ev THEN "done" ELSE "waiting"

\* run_pipeline started but not awaited
RunIsOver_NotAwaited(p) == TRUE

\* await run_pipeline(): the run has returned or raised
RunIsOver(p) == p \in {"returned", "raised"}

\* a loop without the try/except around run_pipeline
LoopAfter_NoExcept(result, ev) ==
    IF result = "raised" THEN "raised" ELSE IF ev THEN "done" ELSE "waiting"

\* where run_loop is after a run that returned or raised: `except Exception`
\* catches the raise, then the break test decides
LoopAfter(result, ev) == IF BreakAfterRun(ev) THEN "done" ELSE "waiting"

\* run_pipeline is over; up to the entry into wait_for
AfterPipeline ==
    /\ lpc = "in_pipeline"
    /\ RunIsOver(ppc)
    /\ hist' = [hist EXCEPT !.last = ppc]
    /\ ppc' = "idle"
    /\ lpc' = LoopAfter(ppc, shutdown_event)
    /\ elapsed' = IF lpc' = "waiting" THEN 0 ELSE elapsed
    /\ UNCHANGED << shutdown_event, runs, storeVars, countVars, scraped_jobs, idx,
                    is_new, exc, db_error, outcome, send, fetch, send_calls >>
    /\ UNCHANGED auxVars

\* a clock tick while wait_for is pending
Tick ==
    /\ lpc = "waiting"
    /\ ~WaitForDone(shutdown_event, elapsed)
    /\ elapsed' = elapsed + 1
    /\ UNCHANGED << lpc, shutdown_event, runs, hist, storeVars, countVars, runVars,
                    send, fetch, send_calls >>
    /\ UNCHANGED auxVars

\* wait_for returned or raised TimeoutError: back to the while test
WaitEnds ==
    /\ lpc = "waiting"
    /\ WaitForDone(shutdown_event, elapsed)
    /\ hist' = [hist EXCEPT !.wake_elapsed = elapsed]
    /\ LoopTest
    /\ UNCHANGED << shutdown_event, elapsed >>
    /\ UNCHANGED auxVars

(* ----------------------------- main.py: cli ---------------------------- *)

\* the values of --interval: absent, or an int
IntervalArgs == { << >>, << -1 >>, << 0 >>, << IntervalTicks >> }

\* if args.interval is not None: if args.interval <= 0: sys.exit(1)
IntervalRejected(interval_arg) == interval_arg # << >> /\ interval_arg[1] <= 0

\* a run-once mode that swallows the exception
OnceAfter_Caught(result) == "exit_0"

\* asyncio.run(run_pipeline()) has no handler around it: an exception leaves
\* cli and the interpreter exits with status 1; a return ends cli, status 0
OnceAfter(result) == IF result = "raised" THEN "exit_1" ELSE "exit_0"

\* cli up to the first await of the coroutine it runs
CliStart ==
    /\ lpc = "cli"
    /\ \E once \in BOOLEAN, interval_arg \in IntervalArgs :
         IF IntervalRejected(interval_arg)
         THEN /\ lpc' = "exit_1"
              /\ UNCHANGED << hist, runs, storeVars, countVars, runVars, send, fetch,
                              send_calls >>
         ELSE IF once
         THEN /\ lpc' = "once_pipeline"
              /\ hist' = [hist EXCEPT !.mode = "once"]
              /\ runs' = runs + 1
              /\ EnterPipeline
         ELSE /\ lpc' = "start"
              /\ hist' = [hist EXCEPT !.mode = "loop"]
              /\ UNCHANGED << runs, storeVars, countVars, runVars, send, fetch,
                              send_calls >>
    /\ UNCHANGED << shutdown_event, elapsed >>
    /\ UNCHANGED auxVars

\* asyncio.run(run_pipeline()) is over
OnceOver ==
    /\ lpc = "once_pipeline"
    /\ RunIsOver(ppc)
    /\ hist' = [hist EXCEPT !.last = ppc]
    /\ ppc' = "idle"
    /\ lpc' = OnceAfter(ppc)
    /\ UNCHANGED << shutdown_event, elapsed, runs, storeVars, countVars, scraped_jobs,
                    idx, is_new, exc, db_error, outcome, send, fetch, send_calls >>
    /\ UNCHANGED auxVars

(* --------------------------- specifications ---------------------------- *)

HistInit ==
    [sig_at |-> "none", sig_elapsed |-> 0, sig_runs |-> 0, wake_elapsed |-> 0,
     last |-> "none", mode |-> "none", failed |-> {}]

IdleRun ==
    /\ ppc = "idle"
    /\ scraped_jobs = <<>>
    /\ idx = 0
    /\ is_new = "unset"
    /\ exc = "none"
    /\ db_error = FALSE
    /\ total_scraped = 0
    /\ total_duplicates = 0
    /\ total_posted = 0
    /\ total_failed = 0
    /\ outcome = <<>>

NoLoop ==
    /\ shutdown_event = FALSE
    /\ elapsed = 0
    /\ runs = 0
    /\ hist = HistInit

StoreCallInit ==
    [op |-> "none", ret |-> "None", closes |-> 0, arg |-> << >>, inits |-> 0,
     before |-> << >>]

ScrIdle == [pc |-> "idle"]

TgIdle == [pc |-> "idle"]

NoCall == [pc |-> "idle"]

EmptyStore ==
    /\ rows = <<>>
    /\ columns = {}
    /\ _conn = "None"
    /\ open_handles = 0
    /\ store_call = StoreCallInit
    /\ send_calls = [l \in Links |-> 0]

\* run_loop on a fresh store
Init ==
    /\ EmptyStore
    /\ lpc = "start"
    /\ NoLoop
    /\ IdleRun
    /\ send = SendIdle
    /\ fetch = FetchIdle
    /\ scr = ScrIdle
    /\ tg = TgIdle
    /\ call = NoCall

Next ==
    \/ LoopEnter
    \/ Signal
    \/ ScrapeReturns
    \/ ScrapeRaises
    \/ SaveJob
    \/ SendAttemptOk
    \/ SendAttemptFail
    \/ SendReturned
    \/ SendRaised
    \/ SleepDone
    \/ PipelineReturns
    \/ AfterPipeline
    \/ Tick
    \/ WaitEnds

Spec == Init /\ [][Next]_vars

\* the process from its entry point
InitCli ==
    /\ EmptyStore
    /\ lpc = "cli"
    /\ NoLoop
    /\ IdleRun
    /\ send = SendIdle
    /\ fetch = FetchIdle
    /\ scr = ScrIdle
    /\ tg = TgIdle
    /\ call = NoCall

NextCli == CliStart \/ OnceOver \/ Next

SpecCli == InitCli /\ [][NextCli]_vars

\* every step of the run_loop task; the signal is the environment's
TaskStep ==
    \/ LoopEnter
    \/ ScrapeReturns
    \/ ScrapeRaises
    \/ SaveJob
    \/ SendAttemptOk
    \/ SendAttemptFail
    \/ SendReturned
    \/ SendRaised
    \/ SleepDone
    \/ PipelineReturns
    \/ AfterPipeline
    \/ Tick
    \/ WaitEnds

\* run_loop with every await of the task completing: the event loop resumes a
\* task whose await is over
SpecLive == Spec /\ WF_vars(TaskStep)

\* one call of send_job_posting with any arguments
InitSend ==
    /\ EmptyStore
    /\ lpc = "none"
    /\ NoLoop
    /\ IdleRun
    /\ \E m \in 0..MaxRetriesArg, b \in InitialBackoffs : send = SendCall(m, b)
    /\ fetch = FetchIdle
    /\ scr = ScrIdle
    /\ tg = TgIdle
    /\ call = NoCall

NextSend == SendAttemptOk \/ SendAttemptFail \/ SendRangeEmpty

SpecSend == InitSend /\ [][NextSend]_vars

\* one call of _fetch_page with any arguments
InitFetch ==
    /\ EmptyStore
    /\ lpc = "none"
    /\ NoLoop
    /\ IdleRun
    /\ send = SendIdle
    /\ \E m \in 0..MaxRetriesArg, b \in InitialBackoffs : fetch = FetchCall(m, b)
    /\ scr = ScrIdle
    /\ tg = TgIdle
    /\ call = NoCall

NextFetch == FetchAttempt \/ FetchRangeEmpty

SpecFetch == InitFetch /\ [][NextFetch]_vars

\* a handle from Database(db_path) on an empty file, used directly
InitStore ==
    /\ rows = <<>>
    /\ columns = AllColumns
    /\ _conn = "open"
    /\ open_handles = 1
    /\ store_call = StoreCallInit
    /\ send_calls = [l \in Links |-> 0]
    /\ lpc = "none"
    /\ NoLoop
    /\ IdleRun
    /\ send = SendIdle
    /\ fetch = FetchIdle
    /\ scr = ScrIdle
    /\ tg = TgIdle
    /\ call = NoCall

NextStore == StoreSave \/ StoreClose

\* a row written by an earlier version of the program into a table with the
\* columns cols: the first has every column set, the second only the NOT NULL
\* ones
OldRow(cols, k) ==
    [c \in cols |->
       CASE c = "id" -> k
         [] c = "title" -> IF k = 1 THEN "t1" ELSE "t2"
         [] c = "link" -> IF k = 1 THEN "l1" ELSE "l2"
         [] c = "description" -> IF k = 1 THEN "d" ELSE "NULL"
         [] c = "source" -> "Jobs.ps"
         [] c = "created_at" -> "CURRENT_TIMESTAMP"
         [] c = "posted_date" ->
              IF k = 1 THEN [n |-> 2, d |-> 24, b |-> "Feb", y |-> 0] ELSE NoDate
         [] OTHER -> IF k = 1 THEN "old" ELSE "NULL"]

\* the database files Database(db_path) can find: none, or a jobs table with
\* the first columns and any of the metadata columns, holding up to two rows
Installations ==
    { [columns |-> {}, rows |-> << >>] } \cup
    UNION { { [columns |-> cols, rows |-> old] :
                old \in { << >>, << OldRow(cols, 1) >>,
                          << OldRow(cols, 1), OldRow(cols, 2) >> } } :
            cols \in { BaseColumns \cup extra :
                         extra \in SUBSET Range(new_columns) } }

\* before Database(db_path) runs on an existing installation
InitOpen ==
    /\ \E db \in Installations :
         /\ rows = db.rows
         /\ columns = db.columns
    /\ _conn = "None"
    /\ open_handles = 0
    /\ store_call = StoreCallInit
    /\ send_calls = [l \in Links |-> 0]
    /\ lpc = "none"
    /\ NoLoop
    /\ IdleRun
    /\ send = SendIdle
    /\ fetch = FetchIdle
    /\ scr = ScrIdle
    /\ tg = TgIdle
    /\ call = NoCall

NextOpen == DatabaseOpen \/ StoreInitDb \/ OpenedSave

SpecOpen == InitOpen /\ [][NextOpen]_vars

SpecStore == InitStore /\ [][NextStore]_vars

\* save_job, init_db and close in any order on one handle
NextClosed == StoreSave \/ StoreClose \/ StoreInitDb

SpecClosed == InitStore /\ [][NextClosed]_vars

\* one call of JobsPsScraper.scrape on any of the sites
InitScrape ==
    /\ EmptyStore
    /\ lpc = "none"
    /\ NoLoop
    /\ IdleRun
    /\ send = SendIdle
    /\ fetch = FetchIdle
    /\ \E site \in Sites, pager \in Pagers, now \in Nows : scr = ScrCall(site, pager, now)
    /\ tg = TgIdle
    /\ call = NoCall

NextScrape ==
    \/ GetTotalPages
    \/ ListingPage
    \/ ScrapeDetail
    \/ AfterDetails
    \/ ForDone
    \/ ScrapeFinally

SpecScrape == InitScrape /\ [][NextScrape]_vars

\* one call of TelegramScraper.scrape with any arguments
InitTelegram ==
    /\ EmptyStore
    /\ lpc = "none"
    /\ NoLoop
    /\ IdleRun
    /\ send = SendIdle
    /\ fetch = FetchIdle
    /\ scr = ScrIdle
    /\ \E m \in 0..MaxRetriesArg, b \in InitialBackoffs, msgs \in Channels :
          tg = TgCall(m, b, msgs)
    /\ call = NoCall

NextTelegram == TgAttempt \/ TgRangeEmpty

SpecTelegram == InitTelegram /\ [][NextTelegram]_vars

\* one call of either scraper's scrape
InitScrapers == InitScrape \/ InitTelegram

NextScrapers == NextScrape \/ NextTelegram

SpecScrapers == InitScrapers /\ [][NextScrapers]_vars

\* _parse_message on any message with up to MaxAnchors anchors
InitParse ==
    /\ EmptyStore
    /\ lpc = "none"
    /\ NoLoop
    /\ IdleRun
    /\ send = SendIdle
    /\ fetch = FetchIdle
    /\ scr = ScrIdle
    /\ tg = TgIdle
    /\ \E lines \in {<< >>, << "Backend developer" >>},
          anchors \in SeqsUpTo(Hrefs, MaxAnchors),
          data_post \in {"", "chan/1"} :
          call = ParseCall(Message(lines, anchors, data_post))

NextParse == ParseMessage

SpecParse == InitParse /\ [][NextParse]_vars

\* two handles open on one database that is empty or holds one row, each
\* about to save a posting
InitTwo ==
    /\ \E table \in { << >>, << NewRow(<< >>, Job("t2", "l2", NoDate)) >> },
          job1 \in Postings \cup {J_full}, job2 \in Postings \cup {J_full} :
         /\ rows = table
         /\ call = TwoCalls(job1, job2, table)
    /\ columns = AllColumns
    /\ _conn = "open"
    /\ open_handles = 2
    /\ store_call = StoreCallInit
    /\ send_calls = [l \in Links |-> 0]
    /\ lpc = "none"
    /\ NoLoop
    /\ IdleRun
    /\ send = SendIdle
    /\ fetch = FetchIdle
    /\ scr = ScrIdle
    /\ tg = TgIdle

NextTwo == \E h \in {1, 2} : TwoBegin(h) \/ TwoInsert(h)

SpecTwo == InitTwo /\ [][NextTwo]_vars

\* demo_scraper.py run as a script on a database file that does not exist yet
InitDemo ==
    /\ EmptyStore
    /\ lpc = "none"
    /\ NoLoop
    /\ IdleRun
    /\ send = SendIdle
    /\ fetch = FetchIdle
    /\ scr = ScrIdle
    /\ tg = TgIdle
    /\ call = DemoStart

NextDemo == DemoMain \/ TgAttempt \/ DemoScraped \/ DemoSave \/ DemoDone

SpecDemo == InitDemo /\ [][NextDemo]_vars

\* escape_markdown on any text of up to MaxText characters
InitEscape ==
    /\ EmptyStore
    /\ lpc = "none"
    /\ NoLoop
    /\ IdleRun
    /\ send = SendIdle
    /\ fetch = FetchIdle
    /\ scr = ScrIdle
    /\ tg = TgIdle
    /\ \E text \in SeqsUpTo(TextChars, MaxText) : call = EscapeCall(text)

NextEscape == EscapeMarkdown

SpecEscape == InitEscape /\ [][NextEscape]_vars

\* _extract_detail_metadata on any detail page
InitDetail ==
    /\ EmptyStore
    /\ lpc = "none"
    /\ NoLoop
    /\ IdleRun
    /\ send = SendIdle
    /\ fetch = FetchIdle
    /\ scr = ScrIdle
    /\ tg = TgIdle
    /\ \E ld \in LdBlocks, panel \in Panels : call = DetailCall(ld, panel)

NextDetail == ExtractDetail

SpecDetail == InitDetail /\ [][NextDetail]_vars

\* both date parsers on any date string
InitDates ==
    /\ EmptyStore
    /\ lpc = "none"
    /\ NoLoop
    /\ IdleRun
    /\ send = SendIdle
    /\ fetch = FetchIdle
    /\ scr = ScrIdle
    /\ tg = TgIdle
    /\ \E date_str \in DateStrs : call = DateCall(date_str)

NextDates == ParseDates

SpecDates == InitDates /\ [][NextDates]_vars

\* one call of sort_jobs_by_posted_date on any list
InitSort ==
    /\ EmptyStore
    /\ lpc = "none"
    /\ NoLoop
    /\ IdleRun
    /\ send = SendIdle
    /\ fetch = FetchIdle
    /\ scr = ScrIdle
    /\ tg = TgIdle
    /\ \E jobs \in SortLists : call = SortCall(jobs)

NextSort == SortJobs

SpecSort == InitSort /\ [][NextSort]_vars

(* ------------------------------- claims -------------------------------- *)

Count(seq, x) == Cardinality({ i \in 1..Len(seq) : seq[i] = x })

HasLink(table, l) == \E i \in 1..Len(table) : table[i].link = l

\* C1: save_job returns True and appends exactly one row when no stored row has
\* the posting's link; when a row with that link exists it returns False and
\* the table (row count and every stored field) stays as it was; so no two
\* rows ever share a link.
Thm_C1_SaveDedup ==
    /\ [](\A i, j \in 1..Len(rows) : rows[i].link = rows[j].link => i = j)
    /\ [][ (ppc = "for" /\ idx <= Len(scraped_jobs) /\ ppc' # "raised") =>
             LET job == scraped_jobs[idx]
             IN  IF HasLink(rows, job.link)
                 THEN is_new' = "False" /\ rows' = rows
                 ELSE /\ is_new' = "True"
                      /\ Len(rows') = Len(rows) + 1
                      /\ SubSeq(rows', 1, Len(rows)) = rows
                      /\ rows'[Len(rows')].link = job.link
                      /\ rows'[Len(rows')].title = job.title ]_vars

\* a posting was rejected as a duplicate of a stored row with another title
Wit_C1_DuplicateRejected ==
    /\ ppc = "for"
    /\ idx > 1
    /\ is_new = "False"
    /\ \E i \in 1..Len(rows) :
         /\ rows[i].link = scraped_jobs[idx - 1].link
         /\ rows[i].title # scraped_jobs[idx - 1].title

\* C2: send_job_posting is called only for a posting save_job has just reported
\* new, so over all runs on one store it is called at most once per link, and
\* only for links that are stored.
Thm_C2_SendOncePerLink ==
    /\ \A l \in Links : send_calls[l] <= 1
    /\ \A l \in Links : send_calls[l] = 1 => HasLink(rows, l)
    /\ (ppc = "sending" => is_new = "True")
    /\ \A i \in 1..Len(outcome) : outcome[i] = "dup" => HasLink(rows, scraped_jobs[i].link)

\* a later run met a posting whose link had been sent before, and skipped it
Wit_C2_DuplicateNotSent ==
    /\ runs = 2
    /\ \E i \in 1..Len(outcome) :
         outcome[i] = "dup" /\ send_calls[scraped_jobs[i].link] = 1

\* C3: a delivery that raises is caught per posting: it is counted as failed,
\* it never ends run_pipeline, and the next posting of the list is the next one
\* examined, so a run that returns has examined every posting.
Thm_C3_FailureIsolated ==
    /\ (ppc = "raised" => exc \in {"scrape", "save_job"})
    /\ (ppc = "for" => idx = Len(outcome) + 1)
    /\ (ppc = "returned" => Len(outcome) = Len(scraped_jobs))
    /\ (ppc \in {"for", "sending", "sleep", "returned"} =>
          total_failed = Count(outcome, "failed"))

\* delivery failed for the first posting and succeeded for the second
Wit_C3_FailedThenSent ==
    /\ ppc = "returned"
    /\ outcome = << "failed", "sent" >>
    /\ total_failed = 1
    /\ total_posted = 1

\* C4: when run_pipeline returns, scraped = duplicates + delivered + failed, each
\* counter equal to the number of postings that met that fate; two new
\* postings both delivered give 2, 0, 2, 0.
Thm_C4_CountersAddUp ==
    ppc = "returned" =>
      /\ total_scraped = Len(scraped_jobs)
      /\ total_duplicates = Count(outcome, "dup")
      /\ total_posted = Count(outcome, "sent")
      /\ total_failed = Count(outcome, "failed")
      /\ total_scraped = total_duplicates + total_posted + total_failed
      /\ (outcome = << "sent", "sent" >> =>
            << total_scraped, total_duplicates, total_posted, total_failed >>
              = << 2, 0, 2, 0 >>)

\* a run of two new postings, both delivered, has returned
Wit_C4_TwoDelivered ==
    /\ ppc = "returned"
    /\ outcome = << "sent", "sent" >>

AllFalse(seq) == \A i \in 1..Len(seq) : seq[i] = FALSE

\* C5: for max_retries >= 1 the transport is called at most max_retries times;
\* the call returns at the first success and makes no further attempt; if all
\* max_retries attempts fail it raises the exception of the last attempt.
Thm_C5_SendRetries ==
    send.max_retries >= 1 =>
      LET n == Len(send.results)
      IN  /\ n <= send.max_retries
          /\ (send.pc = "loop" => AllFalse(send.results) /\ n < send.max_retries)
          /\ (send.pc = "returned" =>
                n >= 1 /\ send.results[n] = TRUE /\ AllFalse(SubSeq(send.results, 1, n - 1)))
          /\ (send.pc = "raised" =>
                n = send.max_retries /\ AllFalse(send.results) /\ send.exc = n)

\* all three attempts of a default call failed and the call raised
Wit_C5_RaisedAfterThree ==
    /\ send.pc = "raised"
    /\ send.max_retries = MAX_RETRIES
    /\ Len(send.results) = 3

\* C6: the k-th wait is initial_backoff * 2^(k-1) seconds, and there is one wait
\* per failed attempt that is followed by another attempt: none after a
\* success, none after the last failed attempt.
Thm_C6_SendBackoff ==
    LET n == Len(send.results)
        followed == { k \in 1..n : send.results[k] = FALSE /\ (k < n \/ send.pc = "loop") }
    IN  /\ \A k \in 1..Len(send.waits) : send.waits[k] = send.initial_backoff * 2^(k - 1)
        /\ Len(send.waits) = Cardinality(followed)

\* a default call succeeded at its third attempt after waiting 2 and 4 seconds
Wit_C6_TwoThenFour ==
    /\ send.pc = "returned"
    /\ send.initial_backoff = INITIAL_BACKOFF
    /\ send.max_retries = MAX_RETRIES
    /\ send.waits = << 2, 4 >>

\* an attempt that fails: navigation raised, the status is 400 or more, or
\* reading the content raised
NavFailed(o) == o.goto = "raises" \/ o.status >= 400 \/ o.content = "raises"

AllNavFailed(seq) == \A i \in 1..Len(seq) : NavFailed(seq[i])

\* C7: _fetch_page navigates at most max_retries times, returns the content at
\* the first attempt that does not fail, waits initial_backoff * 2^(k-1) after
\* the k-th failed attempt that is not the last, returns None after max_retries
\* failed attempts, and never raises.
Thm_C7_FetchRetries ==
    LET n == Len(fetch.results)
    IN  /\ fetch.pc \in {"idle", "loop", "returned"}
        /\ n <= fetch.max_retries
        /\ (fetch.pc = "loop" => AllNavFailed(fetch.results) /\ fetch.ret = "unset")
        /\ (fetch.pc = "returned" /\ fetch.ret # "None" =>
              /\ fetch.ret = "content"
              /\ n >= 1
              /\ ~NavFailed(fetch.results[n])
              /\ AllNavFailed(SubSeq(fetch.results, 1, n - 1))
              /\ Len(fetch.waits) = n - 1)
        /\ (fetch.pc = "returned" /\ fetch.ret = "None" =>
              /\ n = fetch.max_retries
              /\ AllNavFailed(fetch.results)
              /\ (n >= 1 => Len(fetch.waits) = n - 1))
        /\ \A k \in 1..Len(fetch.waits) :
              fetch.waits[k] = fetch.initial_backoff * 2^(k - 1)

\* three attempts failed, one of them with a 4xx status, and None was returned
Wit_C7_NoneAfterThree ==
    /\ fetch.pc = "returned"
    /\ fetch.ret = "None"
    /\ fetch.max_retries = 3
    /\ \E i \in 1..Len(fetch.results) : fetch.results[i].status = 400
    /\ \E i \in 1..Len(fetch.results) : fetch.results[i].goto = "raises"

\* C8: a run_pipeline execution that raises never makes run_loop return or
\* raise: run_loop ends only with the shutdown event set, and with the event
\* clear it waits out the interval and starts another run.
Thm_C8_LoopSurvivesError ==
    /\ [](lpc \in {"start", "in_pipeline", "waiting", "done"})
    /\ [](lpc = "done" => shutdown_event)
    /\ [](hist.last = "raised" /\ ~shutdown_event => lpc \in {"waiting", "in_pipeline"})
    /\ [][ (lpc = "waiting" /\ lpc' # "waiting" /\ ~shutdown_event) =>
             (elapsed = IntervalTicks /\ lpc' = "in_pipeline" /\ runs' = runs + 1) ]_vars

\* after a run that raised, the second run is under way
Wit_C8_NextRunAfterError ==
    /\ hist.last = "raised"
    /\ lpc = "in_pipeline"
    /\ runs = 2
    /\ ~shutdown_event

\* C9: once the signal has arrived during a run, that run goes on to return or
\* raise, and run_loop then returns: it never waits and never starts another run.
Thm_C9_SignalDuringRun ==
    hist.sig_at = "in_pipeline" =>
      /\ runs = hist.sig_runs
      /\ lpc \in {"in_pipeline", "done"}
      /\ (lpc = "in_pipeline" /\ ppc = "returned" => Len(outcome) = Len(scraped_jobs))
      /\ (lpc = "done" =>
            /\ hist.last \in {"returned", "raised"}
            /\ (hist.last = "returned" => Len(outcome) = Len(scraped_jobs)))

\* the signal came while the first posting was being sent; both postings were
\* still processed and run_loop returned
Wit_C9_RunFinishedThenExit ==
    /\ hist.sig_at = "in_pipeline"
    /\ lpc = "done"
    /\ hist.last = "returned"
    /\ Len(outcome) = 2
    /\ total_posted >= 1

\* C10: once the signal has arrived during the interval wait, no further tick
\* of the wait passes: run_loop returns at the tick the signal came, and no
\* other run is started.
Thm_C10_SignalDuringWait ==
    hist.sig_at = "waiting" =>
      /\ runs = hist.sig_runs
      /\ lpc \in {"waiting", "done"}
      /\ (lpc = "waiting" => elapsed = hist.sig_elapsed)
      /\ (lpc = "done" => hist.wake_elapsed = hist.sig_elapsed)

\* the signal came before the interval was over and run_loop returned
Wit_C10_WokenEarly ==
    /\ hist.sig_at = "waiting"
    /\ hist.sig_elapsed < IntervalTicks
    /\ lpc = "done"
    /\ runs < MaxRuns

\* C11: run_loop returns only with the shutdown event set, never on a pipeline
\* error or an elapsed interval alone; and when every await of the run in
\* flight completes, a set event leads to run_loop returning.
Thm_C11_ReturnsOnlyOnShutdown ==
    /\ [](lpc = "done" => shutdown_event)
    /\ [](lpc \in {"start", "in_pipeline", "waiting", "done"})
    /\ (shutdown_event ~> lpc = "done")

\* run_loop went through a failed run and a full interval, and returned only
\* when the signal came during the second run
Wit_C11_ReturnedAfterSignal ==
    /\ lpc = "done"
    /\ shutdown_event
    /\ runs = 2
    /\ hist.sig_at = "in_pipeline"
    /\ hist.sig_runs = 2

\* C12: at most one run_pipeline execution is active at any time: a run is
\* active only while run_loop awaits it, a new run starts only after the previous
\* one returned or raised and its store connection was closed, and no two store
\* connections are ever open together.
Thm_C12_OneRunAtATime ==
    /\ [](open_handles <= 1)
    /\ [](ppc \notin {"idle", "returned", "raised"}
            => lpc = "in_pipeline" /\ _conn = "open" /\ open_handles = 1)
    /\ [][runs' = runs + 1
            => /\ ppc = "idle"
               /\ _conn = "None"
               /\ open_handles = 0
               /\ (runs > 0 => hist.last \in {"returned", "raised"})]_vars

Wit_C12_SecondRunHoldsOnlyHandle ==
    /\ runs = 2
    /\ ppc = "sending"
    /\ _conn = "open"
    /\ open_handles = 1
    /\ hist.last = "raised"

\* C13: the store opened by run_pipeline is closed on every way out of the run
\* (normal completion, an exception from the scraper, an exception from
\* save_job): once the run is over the handle's connection is None and no
\* connection is left open.
Thm_C13_StoreClosedOnExit ==
    /\ (ppc \in {"returned", "raised"} => _conn = "None" /\ open_handles = 0)
    /\ (ppc = "raised" => exc \in {"scrape", "save_job"})
    /\ (ppc = "idle" => _conn = "None" /\ open_handles = 0)

Wit_C13_ClosedAfterSaveError ==
    /\ runs = 2
    /\ hist.last = "returned"
    /\ ppc = "raised"
    /\ exc = "save_job"
    /\ _conn = "None"

\* C14: Database.close is idempotent: the first call releases the connection
\* and sets it to None, and any further call returns normally and changes
\* neither the handle nor the table.
Thm_C14_CloseIdempotent ==
    /\ [](store_call.op = "close"
            => store_call.ret = "None" /\ _conn = "None" /\ open_handles = 0)
    /\ [][(store_call'.closes = store_call.closes + 1 /\ _conn # "None")
            => /\ _conn' = "None"
               /\ open_handles' = open_handles - 1
               /\ rows' = rows]_vars
    /\ [][(store_call'.closes = store_call.closes + 1 /\ _conn = "None")
            => /\ store_call'.ret = "None"
               /\ _conn' = _conn
               /\ open_handles' = open_handles
               /\ rows' = rows]_vars

Wit_C14_ClosedTwice ==
    /\ store_call.op = "close"
    /\ store_call.closes = 2
    /\ store_call.ret = "None"
    /\ Len(rows) = 2

\* C15: a save_job failure other than a duplicate link is raised, not
\* returned as False: in run_pipeline it ends the run with that exception, the
\* posting is counted neither as duplicate nor as failed, the postings after it
\* are not processed, and the exception reaches the caller of run_pipeline.
Thm_C15_SaveErrorAborts ==
    /\ [](db_error =>
            /\ ppc \in {"raised", "idle"}
            /\ exc = "save_job"
            /\ idx >= 1 /\ idx <= Len(scraped_jobs)
            /\ Len(outcome) = idx - 1
            /\ total_failed = Count(outcome, "failed")
            /\ total_duplicates = Count(outcome, "dup")
            /\ (ppc = "idle" => hist.last = "raised"))
    /\ [][(db_error' /\ ppc = "for")
            => /\ ppc' = "raised"
               /\ rows' = rows
               /\ is_new' = is_new
               /\ send_calls' = send_calls]_vars

Wit_C15_RestNotProcessed ==
    /\ db_error
    /\ lpc = "waiting"
    /\ hist.last = "raised"
    /\ idx = 1
    /\ Len(scraped_jobs) = 2
    /\ outcome = <<>>
    /\ total_failed = 0

\* days from the start of year y to the start of month m
RECURSIVE DaysBeforeMonth(_, _)
DaysBeforeMonth(m, y) == IF m = 1 THEN 0 ELSE DaysBeforeMonth(m - 1, y) + DaysIn(m - 1, y)

\* the day number of a yyyymmdd date in the proleptic Gregorian calendar
Ordinal(date) ==
    LET y == date \div 10000
        m == (date \div 100) % 100
        d == date % 100
    IN  365 * (y - 1) + ((y - 1) \div 4) - ((y - 1) \div 100) + ((y - 1) \div 400)
        + DaysBeforeMonth(m, y) + d

\* the date string parses and its midnight lies more than MAX_AGE_DAYS days
\* before now
Older(date_str, now) ==
    LET posted == _parse_listing_date(date_str)
    IN  /\ posted # -1
        /\ \/ Ordinal(now.date) - Ordinal(posted) > MAX_AGE_DAYS
           \/ Ordinal(now.date) - Ordinal(posted) = MAX_AGE_DAYS /\ now.tod > 0

HasOldRow(page, now) ==
    \E k \in 1..Len(page) : RowParses(page[k]) /\ Older(page[k].date_str, now)

InJobs(link) == \E j \in 1..Len(scr.jobs) : scr.jobs[j].link = link

\* C16: scrape fetches the listing pages 1, 2, 3, ... in that order; a page
\* that was fetched and holds a row dated before the cutoff is the last listing
\* page fetched, whatever its other rows are; and the rows of every fetched
\* page that are not before the cutoff, that last page included, go through
\* the detail step and the postings it yields are returned.
Thm_C16_StopsAtOldPage ==
    /\ \A i \in 1..Len(scr.pages_fetched) :
         /\ scr.pages_fetched[i] = i
         /\ (scr.page_html[i] = "content" /\ HasOldRow(PageAt(scr.site, i), scr.now))
              => i = Len(scr.pages_fetched)
    /\ scr.pc = "returned" =>
         /\ \/ Len(scr.pages_fetched) = scr.total_pages
            \/ /\ Len(scr.pages_fetched) > 0
               /\ scr.page_html[Len(scr.pages_fetched)] = "content"
               /\ HasOldRow(PageAt(scr.site, Len(scr.pages_fetched)), scr.now)
         /\ \A i \in 1..Len(scr.pages_fetched) :
              \A k \in 1..Len(PageAt(scr.site, i)) :
                 LET row == PageAt(scr.site, i)[k]
                 IN  (/\ scr.page_html[i] = "content"
                      /\ RowParses(row)
                      /\ ~Older(row.date_str, scr.now))
                     => /\ \E d \in 1..Len(scr.details_fetched) :
                              scr.details_fetched[d] = row.link
                        /\ HttpUrlValid(row.link) => InJobs(row.link)

Wit_C16_StoppedAfterMixedPage ==
    /\ scr.pc = "returned"
    /\ scr.total_pages = 3
    /\ scr.pages_fetched = << 1 >>
    /\ PageAt(scr.site, 1) = P_mixed
    /\ InJobs(R_feb.link)
    /\ InJobs(R_nodate.link)
    /\ ~InJobs(R_old.link)

\* C17: of the rows of a fetched listing page that parse, _scrape_listing_page
\* keeps exactly those whose date is not earlier than now minus 30 days or whose
\* date string is empty or does not parse, and has_old_jobs is True exactly when
\* some parsed row is earlier than that; so no posting scrape collects has a
\* parseable date before the cutoff.
Thm_C17_KeepsRowsInWindow ==
    /\ (scr.pc \in {"details", "for", "finally", "returned"} /\ scr.page_num >= 1
         /\ scr.html = "content") =>
         LET page == PageAt(scr.site, scr.page_num)
         IN  /\ \A k \in 1..Len(page) :
                  RowParses(page[k]) =>
                     ((\E j \in 1..Len(scr.listing_jobs) :
                          scr.listing_jobs[j] = _parse_listing_row(page[k]))
                      <=> ~Older(page[k].date_str, scr.now))
             /\ \A j \in 1..Len(scr.listing_jobs) :
                  \E k \in 1..Len(page) : /\ RowParses(page[k])
                                          /\ scr.listing_jobs[j] = _parse_listing_row(page[k])
             /\ scr.has_old_jobs <=> HasOldRow(page, scr.now)
    /\ \A j \in 1..Len(scr.jobs) : ~Older(scr.jobs[j].posted_date, scr.now)

Wit_C17_CutoffDayIsOld ==
    /\ scr.pc = "returned"
    /\ scr.now.tod = 1
    /\ scr.page_num = 1
    /\ PageAt(scr.site, 1) = P_recent
    /\ scr.has_old_jobs
    /\ Len(scr.jobs) = 1
    /\ scr.jobs[1].link = R_unparsed.link

\* the row the board serves under a link
RowOf(link) == CHOOSE r \in AllRows : r.link = link

\* C18 as stated: whenever the detail fetch of a retained row yields no
\* content, the posting is not dropped: scrape collects a posting for that row.
Cex_C18_NeverDropped ==
    \A d \in 1..Len(scr.details_fetched) :
       DetailPage(scr.details_fetched[d]) = "down" => InJobs(scr.details_fetched[d])

\* C18 (amended): when the detail fetch of a retained row yields no content
\* and the row's link is a well-formed absolute http(s) URL, the posting is kept,
\* built from the listing data alone (title, company, link, listing location,
\* raw posted-date string) with position_level, deadline and experience unset;
\* when the link is not such a URL, no posting is built and the row is dropped.
Thm_C18_ListingFallback ==
    \A d \in 1..Len(scr.details_fetched) :
       LET link == scr.details_fetched[d]
           row == RowOf(link)
       IN  DetailPage(link) = "down" =>
             IF HttpUrlValid(link)
             THEN \E j \in 1..Len(scr.jobs) :
                     /\ scr.jobs[j].link = link
                     /\ scr.jobs[j].title = row.title
                     /\ scr.jobs[j].company = (IF row.company = "" THEN "None" ELSE row.company)
                     /\ scr.jobs[j].location = row.location
                     /\ scr.jobs[j].posted_date = row.date_str
                     /\ scr.jobs[j].position_level = "None"
                     /\ scr.jobs[j].deadline = "None"
                     /\ scr.jobs[j].experience = "None"
             ELSE ~InJobs(link)

Wit_C18_FallbackAndDrop ==
    /\ scr.pc = "returned"
    /\ \E d \in 1..Len(scr.details_fetched) : scr.details_fetched[d] = R_relative.link
    /\ ~InJobs(R_relative.link)
    /\ \E j \in 1..Len(scr.jobs) :
          /\ scr.jobs[j].link = R_nodate.link
          /\ scr.jobs[j].company = "c1"
          /\ scr.jobs[j].location = "loc1"
          /\ scr.jobs[j].posted_date = NoDate
          /\ scr.jobs[j].position_level = "None"

\* the text after the last 'page=' of the pager's href
PageParam(pager) == pager.parts[Len(pager.parts)]

\* C19: when the first listing page is fetched, _get_total_pages is the
\* integer written after 'page=' in the href of the last pagination item's link
\* (3 for a link to page 3), and 1 when the control is absent, its last item has
\* no link, the href has no 'page=', or what follows 'page=' is not an integer.
Thm_C19_TotalPages ==
    (scr.pc \notin {"idle", "get_total_pages"} /\ scr.base_html = "content") =>
       /\ ~scr.pager.control => scr.total_pages = 1
       /\ ~scr.pager.link => scr.total_pages = 1
       /\ (scr.pager.link /\ Len(scr.pager.parts) = 1) => scr.total_pages = 1
       /\ (scr.pager.link /\ Len(scr.pager.parts) > 1) =>
            /\ PageParam(scr.pager) = << "3" >> => scr.total_pages = 3
            /\ PageParam(scr.pager) = << "2" >> => scr.total_pages = 2
            /\ PageParam(scr.pager) = << "0" >> => scr.total_pages = 0
            /\ PageParam(scr.pager) \notin { << "3" >>, << "2" >>, << "0" >> }
                 => scr.total_pages = 1

Wit_C19_ThreePages ==
    /\ scr.pc = "for"
    /\ scr.base_html = "content"
    /\ scr.pager.parts = << << "?" >>, << "3" >> >>
    /\ scr.total_pages = 3

\* C20: TelegramScraper.scrape makes at most max_retries attempts; only an
\* attempt that met a network/HTTP error is followed by another one, after a
\* wait of initial_backoff * 2^(attempt-1); once the attempts are used up it
\* returns the empty list; an attempt that met any other error is the last one
\* and the call also returns the empty list.
Thm_C20_TelegramRetries ==
    tg.pc \in {"loop", "returned"} =>
       /\ Len(tg.results) <= tg.max_retries
       /\ \A i \in 1..(Len(tg.results) - 1) : tg.results[i] = "http_error"
       /\ \A i \in 1..Len(tg.waits) :
            /\ tg.results[i] = "http_error"
            /\ tg.waits[i] = tg.initial_backoff * Pow2(i - 1)
       /\ tg.pc = "loop" => Len(tg.waits) = Len(tg.results)
       /\ tg.pc = "returned" =>
            /\ Len(tg.waits) = (IF Len(tg.results) = 0 THEN 0 ELSE Len(tg.results) - 1)
            /\ (Len(tg.results) > 0 /\ tg.results[Len(tg.results)] = "http_error")
                 => (Len(tg.results) = tg.max_retries /\ tg.jobs = << >>)
            /\ (Len(tg.results) > 0 /\ tg.results[Len(tg.results)] = "other_error")
                 => tg.jobs = << >>
            /\ Len(tg.results) = 0 => (tg.max_retries = 0 /\ tg.jobs = << >>)

Wit_C20_EmptyAfterThree ==
    /\ tg.pc = "returned"
    /\ tg.max_retries = 3
    /\ tg.initial_backoff = 2
    /\ tg.results = << "http_error", "http_error", "http_error" >>
    /\ tg.waits = << 2, 4 >>
    /\ Len(tg.messages) = 3
    /\ tg.jobs = << >>

\* the false-positive check in the claim's words: the domain is not one of the
\* rejected ones, and the URL is not a root or empty path on a two-segment
\* domain whose first segment has at most 3 characters
Passes(url) ==
    /\ Domain(url) \notin FALSE_POSITIVE_DOMAINS
    /\ ~(/\ url.path \in {"", "/"}
         /\ Len(Domain(url)) = 2
         /\ Len(Domain(url)[1]) <= 3)

Permalink(data_post) == TgUrl("https", << <<"t">>, <<"m", "e">> >>, data_post)

\* C21: for a channel message, _find_best_link gives the first anchor href in
\* document order that passes the false-positive check; when none passes, the
\* permalink built from the message's data-post; when there is no data-post
\* either, nothing, and _parse_message returns no posting.
Thm_C21_FirstValidLink ==
    call.pc = "returned" =>
       LET a == call.msg.anchors
           Ok(i) == a[i] # NoHref /\ Passes(a[i])
       IN  /\ (\E i \in 1..Len(a) : Ok(i)) =>
                \E i \in 1..Len(a) : /\ Ok(i)
                                     /\ \A j \in 1..(i - 1) : ~Ok(j)
                                     /\ call.link = << a[i] >>
           /\ ((\A i \in 1..Len(a) : ~Ok(i)) /\ call.msg.data_post # "") =>
                call.link = << Permalink(call.msg.data_post) >>
           /\ ((\A i \in 1..Len(a) : ~Ok(i)) /\ call.msg.data_post = "") =>
                (call.link = << >> /\ call.ret = << >>)

Wit_C21_LegitimateAfterRejected ==
    /\ call.pc = "returned"
    /\ call.msg.anchors = << U_VBNET, U_shortpath >>
    /\ call.link = << U_shortpath >>
    /\ Len(call.ret) = 1

\* the posted_date string parses as a date, and the day number of that date
HasDate(p) ==
    \/ p.n = 3 /\ Strptime(p.d, p.b, p.y) # -1
    \/ p.n = 2 /\ Strptime(p.d, p.b, CurrentYear) # -1

DayOf(p) ==
    Ordinal(IF p.n = 3 THEN Strptime(p.d, p.b, p.y) ELSE Strptime(p.d, p.b, CurrentYear))

\* C22: run_pipeline handles the postings one at a time in ascending order of
\* parsed posted date: the list it walks has no posting with a parseable date
\* behind a later-dated or an undated one, the posting saved is always the one
\* at the loop position, and every posting before that position is settled.
Thm_C22_EarliestFirst ==
    /\ [](\A i \in 1..Len(scraped_jobs) : \A j \in (i + 1)..Len(scraped_jobs) :
             LET a == scraped_jobs[i].posted_date
                 b == scraped_jobs[j].posted_date
             IN  /\ (HasDate(a) /\ HasDate(b)) => DayOf(a) <= DayOf(b)
                 /\ ~HasDate(a) => ~HasDate(b))
    /\ [](ppc \in {"for", "sending"} => Len(outcome) = idx - 1)
    /\ [](ppc = "sleep" => Len(outcome) = idx)
    /\ [][(ppc = "for" /\ rows' # rows)
            => /\ rows'[Len(rows')].link = scraped_jobs[idx].link
               /\ rows'[Len(rows')].posted_date = scraped_jobs[idx].posted_date
               /\ SubSeq(rows', 1, Len(rows)) = rows]_vars
    /\ [][(ppc = "for" /\ send_calls' # send_calls)
            => send_calls'[scraped_jobs[idx].link] = send_calls[scraped_jobs[idx].link] + 1]_vars

Wit_C22_EarlierDateThenLaterThenUndated ==
    /\ ppc = "returned"
    /\ Len(scraped_jobs) = 2
    /\ scraped_jobs[1].posted_date = [n |-> 3, d |-> 16, b |-> "Nov", y |-> 2025]
    /\ scraped_jobs[2].posted_date = [n |-> 2, d |-> 31, b |-> "Feb", y |-> 0]
    /\ outcome = << "sent", "sent" >>
    /\ Len(rows) = 2
    /\ rows[1].link = "l1"

\* C23: after save_job stored a posting, selecting the ten posting fields by
\* the posting's link returns exactly one row whose fields equal the
\* posting's, and every optional field the posting left unset is NULL in the
\* stored row.
Thm_C23_RoundTrip ==
    (store_call.op = "save_job" /\ store_call.ret = "True") =>
       LET job == store_call.arg[1]
           got == SelectByLink(rows, job.link)
       IN  /\ Len(got) = 1
           /\ got[1] = job
           /\ \A i \in 1..Len(rows) :
                rows[i].link = job.link =>
                   /\ \A c \in { "company", "position_level", "location",
                                  "deadline", "experience" } :
                        (job[c] = "None") <=> (rows[i][c] = "NULL")
                   /\ rows[i].posted_date = job.posted_date

\* a posting with every field set and one with the optional fields unset are
\* both stored
Wit_C23_FullAndSparseStored ==
    /\ store_call.op = "save_job"
    /\ store_call.ret = "True"
    /\ store_call.arg = << J_full >>
    /\ Len(rows) = 2
    /\ rows[1].location = "NULL"
    /\ rows[2].location = "Ramallah"
    /\ rows[2].position_level = "Mid-Level"

\* C24: init_db on an existing installation leaves every metadata column
\* present, keeps every row that was there with the values it had in the
\* columns it had, and changes nothing when the metadata columns were
\* already there (as on a second init_db).
Thm_C24_MigrationAdditive ==
    (store_call.op = "init_db" /\ store_call.ret = "None") =>
       LET old == store_call.before[Len(store_call.before)]
       IN  /\ Range(new_columns) \subseteq columns
           /\ old.columns \subseteq columns
           /\ Len(rows) = Len(old.rows)
           /\ \A i \in 1..Len(old.rows) :
                /\ DOMAIN rows[i] = columns
                /\ \A c \in old.columns : rows[i][c] = old.rows[i][c]
                /\ \A c \in columns \ old.columns : rows[i][c] = SqlNull(c)
           /\ (Range(new_columns) \subseteq old.columns) =>
                (columns = old.columns /\ rows = old.rows)

\* an installation with only the location column and two rows was opened
\* and init_db then ran a second time
Wit_C24_MigratedThenAgain ==
    /\ store_call.op = "init_db"
    /\ store_call.inits = 2
    /\ store_call.before[1].columns = BaseColumns \cup {"location"}
    /\ Len(store_call.before[1].rows) = 2
    /\ store_call.before[2].columns = AllColumns
    /\ Len(rows) = 2
    /\ rows[1].location = "old"
    /\ rows[1].deadline = "NULL"
    /\ rows = store_call.before[2].rows

\* C25: in run-once mode an exception that leaves run_pipeline ends the
\* process with a non-zero exit status (and a run that returns ends it with
\* status 0); in loop mode the same exception never ends the process: the
\* loop goes on to wait for the next cycle, or stops only because a shutdown
\* was requested.
Thm_C25_OnceRaisesLoopCatches ==
    /\ [][(lpc = "once_pipeline" /\ ppc = "raised" /\ lpc' # lpc) => lpc' = "exit_1"]_vars
    /\ [][(lpc = "once_pipeline" /\ lpc' = "exit_0") => ppc = "returned"]_vars
    /\ [](hist.mode = "once" /\ lpc = "exit_1" => hist.last = "raised")
    /\ [](hist.mode = "loop" => lpc \notin {"exit_0", "exit_1"})
    /\ [][(hist.mode = "loop" /\ lpc = "in_pipeline" /\ ppc = "raised" /\ lpc' # lpc)
            => /\ lpc' \in {"waiting", "done"}
               /\ lpc' = "done" => shutdown_event]_vars

\* run-once mode ended with status 1 after save_job raised on the second
\* posting
Wit_C25_OnceExitedNonZero ==
    /\ hist.mode = "once"
    /\ lpc = "exit_1"
    /\ hist.last = "raised"
    /\ exc = "save_job"
    /\ idx = 2
    /\ _conn = "None"

\* the message has a link and a first line, and the link is a well-formed
\* absolute http(s) URL
MessageValidates(msg) ==
    /\ _find_best_link(msg) # << >>
    /\ msg.lines # << >>
    /\ _find_best_link(msg)[1].scheme \in {"http", "https"}
    /\ _find_best_link(msg)[1].domain # << >>

Reserved ==
    { "_", "*", "[", "]", "(", ")", "~", "BACKTICK", ">", "#", "+", "-", "=", "|", "{",
      "}", ".", "!", "\\" }

\* reading an escaped text from the left: a backslash and the reserved
\* character after it stand for that character, any other character for
\* itself; a reserved character met without its backslash is marked
RECURSIVE Unescape(_)
Unescape(out) ==
    IF out = << >> THEN << >>
    ELSE IF out[1] = "\\" /\ Len(out) >= 2 /\ out[2] \in Reserved
    THEN << out[2] >> \o Unescape(SubSeq(out, 3, Len(out)))
    ELSE IF out[1] \in Reserved
    THEN << "unescaped" >> \o Unescape(Tail(out))
    ELSE << out[1] >> \o Unescape(Tail(out))

\* C27: the output of escape_markdown is the input with one backslash put
\* before every reserved character and nothing else changed: read back from
\* the left it gives the input again, no reserved character in it stands
\* without its backslash, its length is the input's plus the number of
\* reserved characters, and the empty text gives the empty text.
Thm_C27_EscapeMarkdown ==
    (call.pc = "returned") =>
       /\ Unescape(call.ret) = call.text
       /\ \A i \in 1..Len(Unescape(call.ret)) : Unescape(call.ret)[i] # "unescaped"
       /\ Len(call.ret) = Len(call.text)
                           + Cardinality({ i \in 1..Len(call.text) :
                                             call.text[i] \in Reserved })
       /\ call.text = << >> => call.ret = << >>

\* a backslash followed by a letter comes back as two backslashes and the
\* letter
Wit_C27_BackslashEscaped ==
    /\ call.pc = "returned"
    /\ call.text = << "\\", "a" >>
    /\ call.ret = << "\\", "\\", "a" >>

\* C29: a posting of the channel-preview scraper that the topical filter
\* rejects is never saved to the store: every stored row whose source is the
\* channel scraper has a text the filter accepts.
Cex_C29_FilteredNeverSaved ==
    \A i \in 1..Len(rows) :
       rows[i].source = "Telegram" => is_it_job(rows[i].description)

\* C30: no two rows ever share a link; and when two save_job calls for the
\* same link, in flight at the same time on two handles, have both returned
\* (neither met an engine failure), exactly one row has that link, at most one
\* call returned True, and one did exactly when the link was not stored
\* before, the other returning False.
Thm_C30_InterleavedSaves ==
    /\ \A i, j \in 1..Len(rows) : rows[i].link = rows[j].link => i = j
    /\ (/\ call.pc = << "returned", "returned" >>
        /\ call.job[1].link = call.job[2].link
        /\ "error" \notin { call.ret[1], call.ret[2] }) =>
          LET link == call.job[1].link
              trues == { h \in {1, 2} : call.ret[h] = "True" }
              falses == { h \in {1, 2} : call.ret[h] = "False" }
          IN  /\ Cardinality({ i \in 1..Len(rows) : rows[i].link = link }) = 1
              /\ trues \cup falses = {1, 2}
              /\ Cardinality(trues) = (IF HasLink(call.before, link) THEN 0 ELSE 1)

\* both calls were entered before either inserted; the second handle's
\* insert ran first and won
Wit_C30_BothEnteredThenInserted ==
    /\ call.trace = << << "begin", 1 >>, << "begin", 2 >>, << "insert", 2 >>,
                       << "insert", 1 >> >>
    /\ call.job[1].link = "l1"
    /\ call.job[2].link = "l1"
    /\ call.job[1].title # call.job[2].title
    /\ call.ret = << "False", "True" >>
    /\ Len(rows) = 1
    /\ rows[1].title = call.job[2].title

\* what the structured-data block provides for a field, "" when it provides
\* nothing for it
LdProvides(ld, field) ==
    IF ld.kind # "object" THEN ""
    ELSE CASE field = "deadline" -> ld.valid_through
           [] field = "experience" -> ld.experience
           [] field = "location" ->
                (IF ld.job_location = "locality" THEN "Ramallah" ELSE "")
           [] OTHER -> ""

\* the precedence C31 states, for a call that returned
DetailPrecedence ==
    call.pc = "returned" =>
       /\ \A f \in {"deadline", "experience", "location"} :
            call.details[1][f] =
               (IF LdProvides(call.ld, f) # "" THEN LdProvides(call.ld, f)
                ELSE IF call.panel[f] # "" THEN call.panel[f] ELSE "None")
       /\ call.details[1].position_level = OrNone(call.panel.position_level)

\* C31: _extract_detail_metadata takes deadline, experience and location from
\* the structured-data block when it provides them, the panel's value only
\* for those it omitted, position_level always from the panel; and on a
\* structured-data block that is not a well-formed job posting object it
\* does not raise but returns the panel's values.
Cex_C31_DegradesWithoutRaising ==
    /\ DetailPrecedence
    /\ call.pc # "raised"
    /\ (call.pc = "returned" /\ call.ld.kind \in {"invalid", "array"}) =>
          \A f \in {"position_level", "deadline", "experience", "location"} :
             call.details[1][f] = OrNone(call.panel[f])


\* a posting of the current run met its fate in this step
FateRecorded == Len(outcome') = Len(outcome) + 1

\* C32: the step that records a posting's fate enters the asyncio.sleep(1)
\* pause exactly when the fate is a successful delivery; a duplicate and a
\* failed delivery go straight back to the for loop. The pause is entered in no
\* other way, nothing is stored or sent while it lasts, and it ends with the
\* next posting of the list.
Thm_C32_PauseOnlyAfterDelivery ==
    [][ /\ FateRecorded =>
             /\ (outcome'[Len(outcome')] = "sent" => ppc' = "sleep" /\ idx' = idx)
             /\ (outcome'[Len(outcome')] \in {"dup", "failed"} => ppc' = "for" /\ idx' = idx + 1)
        /\ (ppc # "sleep" /\ ppc' = "sleep") => FateRecorded /\ ppc = "sending" /\ send.pc = "returned"
        /\ ppc = "sleep" =>
             /\ rows' = rows /\ send_calls' = send_calls /\ outcome' = outcome
             /\ \/ ppc' = "sleep" /\ idx' = idx
                \/ ppc' = "for" /\ idx' = idx + 1 ]_vars

\* a run in which a duplicate and a failed delivery were not followed by a
\* pause and the delivery after them is
Wit_C32_PauseOnlyAfterDelivery ==
    /\ ppc = "sleep"
    /\ runs = 2
    /\ outcome \in { << "dup", "sent" >>, << "failed", "sent" >> }

\* C33: a posting is in the store before send_job_posting is called for it,
\* and a posting whose delivery failed stays stored with that one call as its
\* only one: whenever a later save_job examines it the posting is counted as a
\* duplicate, and it is never sent again.
Thm_C33_FailedDeliveryNeverResent ==
    /\ [](\A l \in Links : send_calls[l] > 0 => HasLink(rows, l))
    /\ [](\A l \in hist.failed : HasLink(rows, l) /\ send_calls[l] = 1)
    /\ [][ (FateRecorded /\ ppc = "for" /\ scraped_jobs[idx].link \in hist.failed) =>
             outcome'[Len(outcome')] = "dup" /\ send_calls' = send_calls /\ rows' = rows ]_vars

\* the second run has counted as a duplicate a posting whose delivery failed
\* in the first
Wit_C33_FailedDeliveryNeverResent ==
    /\ runs = 2
    /\ total_failed = 0
    /\ Len(outcome) > 0
    /\ outcome[Len(outcome)] = "dup"
    /\ scraped_jobs[Len(outcome)].link \in hist.failed

\* C34: when the fetch of the first listing page gave no content,
\* _get_total_pages returns 0 and scrape fetches no listing page and no detail
\* page, collects nothing, goes from the loop head straight to the finally
\* block, and returns the empty list with the browser closed.
Thm_C34_FirstFetchFailed ==
    /\ [](scr.base_html = "None" =>
             /\ scr.total_pages = 0
             /\ scr.pages_fetched = << >>
             /\ scr.details_fetched = << >>
             /\ scr.jobs = << >>
             /\ scr.pc \in {"for", "finally", "returned"}
             /\ (scr.pc = "returned" => scr.browser = "closed"))
    /\ [][ scr.base_html = "None" =>
             /\ (scr.pc = "for" => scr'.pc = "finally")
             /\ (scr.pc = "finally" => scr'.pc = "returned" /\ scr'.browser = "closed") ]_vars

\* scrape has returned after a failed first fetch, on a site that has rows
Wit_C34_FirstFetchFailed ==
    /\ scr.pc = "returned"
    /\ scr.base_html = "None"
    /\ scr.site[1] # P_empty
    /\ scr.pager.control

\* the postings collected so far are the first ones of the list after the step
JobsKept == Len(scr'.jobs) >= Len(scr.jobs) /\ SubSeq(scr'.jobs, 1, Len(scr.jobs)) = scr.jobs

\* C35: a listing page whose fetch gave no content yields no rows and
\* has_old_jobs = False; the loop does not break on it, so the next fetch is
\* that of the following page number while one is left, and no step of scrape
\* drops a posting already collected.
Thm_C35_ListingFetchFailed ==
    /\ [](scr.pc = "details" /\ scr.html = "None" =>
             scr.listing_jobs = << >> /\ ~scr.has_old_jobs)
    /\ [][ /\ JobsKept
           /\ (scr.pc = "for" /\ scr'.pc = "details" /\ scr'.html = "None") =>
                 scr'.jobs = scr.jobs /\ scr'.page_old[Len(scr'.page_old)] = FALSE
           /\ (scr.pc = "details" /\ scr.html = "None") =>
                 /\ scr'.pc = "for"
                 /\ scr'.jobs = scr.jobs
                 /\ scr'.details_fetched = scr.details_fetched
           /\ (scr.pc = "for" /\ scr.html = "None" /\ scr.page_num < scr.total_pages) =>
                 /\ scr'.pc = "details"
                 /\ scr'.page_num = scr.page_num + 1
                 /\ scr'.pages_fetched = Append(scr.pages_fetched, scr.page_num + 1) ]_vars

\* the second of three listing pages failed: the postings of the first are
\* returned and the third page was fetched
Wit_C35_ListingFetchFailed ==
    /\ scr.pc = "returned"
    /\ scr.pages_fetched = << 1, 2, 3 >>
    /\ scr.page_html[1] = "content"
    /\ scr.page_html[2] = "None"
    /\ Len(scr.jobs) > 0

\* the wait for the challenge page raised in this attempt
WaitRaised(o) == o.goto # "raises" /\ o.wait = "raises"

\* C36: an attempt of _fetch_page in which the wait for the challenge page
\* raised is not a failed attempt for that reason: with a status below 400 (or
\* no response) and a readable page it is the last attempt and the call returns
\* the page content; it is followed by a backoff and another attempt only when
\* the status is >= 400 or page.content() raised.
Thm_C36_WaitErrorSwallowed ==
    \A i \in 1..Len(fetch.results) :
        LET o == fetch.results[i]
        IN  WaitRaised(o) =>
              /\ (o.status < 400 /\ o.content # "raises" =>
                    i = Len(fetch.results) /\ fetch.pc = "returned" /\ fetch.ret = "content")
              /\ (i < Len(fetch.results) \/ fetch.ret = "None" =>
                    o.status >= 400 \/ o.content = "raises")

\* the call returned the content at its first attempt although the wait raised
Wit_C36_WaitErrorSwallowed ==
    /\ fetch.pc = "returned"
    /\ fetch.ret = "content"
    /\ fetch.max_retries = 3
    /\ Len(fetch.results) = 1
    /\ fetch.waits = << >>
    /\ WaitRaised(fetch.results[1])
    /\ fetch.results[1].status = 200

\* C37: on the same date string and with the same current year,
\* _parse_posted_date returns datetime.max exactly when _parse_listing_date
\* returns None, and otherwise both return the same date, which is never
\* datetime.max.
Thm_C37_ParsersAgree ==
    call.pc = "returned" =>
      /\ (call.posted = DATETIME_MAX <=> call.listing = -1)
      /\ (call.listing # -1 => call.posted = call.listing /\ call.posted < DATETIME_MAX)

\* a short date both parsers read in the current year, and one neither reads
Wit_C37_ParsersAgree ==
    /\ call.pc = "returned"
    /\ \/ call.date_str.n = 2 /\ call.listing = CurrentYear * 10000 + 224
       \/ call.date_str = [n |-> 3, d |-> 31, b |-> "Dec", y |-> 9999] /\ call.listing = 99991231

\* C38: on a handle whose connection close() has set to None, every save_job
\* and every init_db call raises RuntimeError: it returns neither True nor
\* False, leaves the table and its columns as they were, and leaves the
\* connection None with no connection opened.
Thm_C38_ClosedHandleRaises ==
    /\ [](_conn = "None" /\ store_call.op \in {"save_job", "init_db"} =>
             store_call.ret = "RuntimeError")
    /\ [][ (_conn = "None" /\ store_call' # store_call /\ store_call'.op # "close") =>
             /\ store_call'.ret = "RuntimeError"
             /\ rows' = rows
             /\ columns' = columns
             /\ _conn' = "None"
             /\ open_handles' = 0
             /\ store_call'.inits = store_call.inits ]_vars

\* init_db raised on a closed handle whose table holds a row
Wit_C38_ClosedHandleRaises ==
    /\ _conn = "None"
    /\ store_call.op = "init_db"
    /\ store_call.ret = "RuntimeError"
    /\ store_call.closes = 1
    /\ Len(rows) = 1

\* how often posting j occurs in the list s
Occurrences(s, j) == Cardinality({ i \in 1..Len(s) : s[i] = j })

\* the postings of s whose sort key is k, in the order of s
WithKey(s, k) == SelectSeq(s, LAMBDA j : SortKey(j) = k)

\* C39: the list sort_jobs_by_posted_date returns holds every posting of its
\* input as often as the input does and nothing else, the input list is as it
\* was, and the postings of any one sort key, datetime.max for the absent and
\* unparseable dates included, stand in the order they had in the input.
Thm_C39_SortStablePermutation ==
    /\ [](call.pc = "returned" =>
             /\ Len(call.ret) = Len(call.jobs)
             /\ \A j \in Postings : Occurrences(call.ret, j) = Occurrences(call.jobs, j)
             /\ \A j \in Postings : WithKey(call.ret, SortKey(j)) = WithKey(call.jobs, SortKey(j)))
    /\ [][call'.jobs = call.jobs]_vars

\* two postings without a usable date came before a dated one: the dated one
\* is first and the two keep their order
Wit_C39_SortStablePermutation ==
    /\ call.pc = "returned"
    /\ Len(call.jobs) = 3
    /\ call.ret = << call.jobs[3], call.jobs[1], call.jobs[2] >>
    /\ call.jobs[1] # call.jobs[2]
    /\ call.jobs[1].posted_date.n = 2
    /\ call.jobs[2].posted_date = NoDate
    /\ SortKey(call.jobs[3]) < DATETIME_MAX

====
